---- MODULE Spec2Model ----
(***************************************************************************)
(* A model of the Vulkan backend of picom (src/src/inspect.c): the frame   *)
(* sequencer (vk_prepare, vk_compose, vk_fill, vk_present), the image      *)
(* binder (vk_bind_pixmap, vk_release_image) and device selection          *)
(* (vk_create_device, vk_select_physical_device).                          *)
(*                                                                         *)
(* The caller is single threaded; the device executes submissions          *)
(* asynchronously.  A handler that blocks (vkWaitForFences,                *)
(* vkDeviceWaitIdle) is split at the blocking call: the part before it is  *)
(* one action, the part after it another, and `pc` is the caller's         *)
(* position.  Every Vulkan / X call whose result the code tests takes its  *)
(* result from an input of the action.                                     *)
(***************************************************************************)
EXTENDS Integers, Sequences, FiniteSets, TLC

\* ------------------------------------------------------------------ bounds
MaxSwapImages == 2
MaxFrames == 2
MaxBinds == 2
MaxOps == 1
MaxComposes == 2
MaxPlanes == 2
MaxRects == 2
MaxFaults == 1
MaxDevices == 2
MaxDim == 3
MaxAlignmentLog == 4
MaxButtons == 3
MaxWindows == 2

\* ------------------------------------------------------- program constants
XCB_NONE == 0
SHM_FAILED == -1
DRAW_VERTICES == 4
VK_NULL_HANDLE == 0
\* UINT32_MAX, the queue family index before one is found, written as -1
UINT32_MAX == -1
VK_API_VERSION_1_3 == 3

VARIABLES
    bind_pixmap_strategy,      \* vd->bind_pixmap_strategy
    swapchain_image_count,     \* vd->swapchain_image_count
    buffer_ages,               \* vd->buffer_ages[i]
    swapchain_image_layouts,   \* vd->swapchain_image_layouts[i]
    swapchain_image_index,     \* vd->swapchain_image_index
    queue_submit_fence,        \* TRUE iff vd->queue_submit_fence is signaled
    acquire_next_image_fence,  \* "unsignaled" | "pending" | "signaled"
    semaphore,                 \* vd->semaphore: "unsignaled" | "signaled" | "invalid"
    acquired,                  \* swap-chain images acquired and not yet presented
    command_buffer,            \* vd->command_buffer: [state, cmds]
    queue,                     \* submissions the device has not finished, oldest first
    images,                    \* every struct vulkan_image ever allocated, by handle
    segs,                      \* the kernel's shared memory ids: owner handle, 0 = unused
    live,                      \* number of live resources of each kind
    pc,                        \* where the caller is
    call,                      \* the blocked call's arguments
    frame,                     \* "idle" | "recording": between vk_prepare and vk_present
    nframes, nbinds, nops,     \* calls made so far (bounded)
    faults,                    \* calls that have failed so far (bounded)
    session,                   \* vk_create_device's inputs
    dev,                       \* vk_create_device's outputs
    startup,                   \* vk_init's progress and the resources it made and released
    inspect                    \* inspect_select_window: its locals, and the pointer's buttons

frameVars == <<bind_pixmap_strategy, swapchain_image_count, buffer_ages,
               swapchain_image_layouts, swapchain_image_index, queue_submit_fence,
               acquire_next_image_fence, semaphore, acquired, command_buffer, queue,
               images, segs, live, pc, call, frame, nframes, nbinds, nops, faults>>
devVars == <<session, dev, startup, inspect>>
vars == <<frameVars, devVars>>

Strategies == {"DRI3", "SHM"}
SwapIdx == 0 .. (swapchain_image_count - 1)
Handles == 1 .. MaxBinds
ShmIds == 0 .. (MaxBinds - 1)

\* ---------------------------------------------------------------- regions
\* pixman_region32_rectangles: a region is a list of disjoint boxes.
Box(x1, y1, x2, y2) == [x1 |-> x1, y1 |-> y1, x2 |-> x2, y2 |-> y2]
BoxAt(i) == Box(2 * (i - 1), 0, 2 * (i - 1) + 1, 1)
Regions == { [i \in 1 .. n |-> BoxAt(i)] : n \in 0 .. MaxRects }

Min(a, b) == IF a < b THEN a ELSE b
Max(a, b) == IF a > b THEN a ELSE b

RECURSIVE ExtentsFrom(_, _, _)
ExtentsFrom(rects, i, acc) ==
    IF i > Len(rects) THEN acc
    ELSE ExtentsFrom(rects, i + 1,
                     Box(Min(acc.x1, rects[i].x1), Min(acc.y1, rects[i].y1),
                         Max(acc.x2, rects[i].x2), Max(acc.y2, rects[i].y2)))

\* pixman_region32_extents: the bounding box of the region.
pixman_region32_extents(rects) ==
    IF Len(rects) = 0 THEN Box(0, 0, 0, 0) ELSE ExtentsFrom(rects, 2, rects[1])

\* --------------------------------------------------------- command buffer
\* One recorded command: what it acts on (a swap-chain image by index, a Bound
\* Image by handle, or nothing), a barrier's layouts, and its integer arguments.
Cmd(op, kind, id, old, new, args) ==
    [op |-> op, kind |-> kind, id |-> id, old |-> old, new |-> new, args |-> args]

\* vkCmd*: a command is recorded only into a command buffer that is recording.
Record(cb, cmds) ==
    IF cb.state = "recording" THEN [cb EXCEPT !.cmds = @ \o cmds] ELSE cb

\* vkResetCommandBuffer
ResetCommandBuffer(cb, ok) ==
    IF ok THEN [state |-> "initial", cmds |-> <<>>] ELSE cb

\* vkBeginCommandBuffer (the pool has RESET_COMMAND_BUFFER_BIT: begin resets)
BeginCommandBuffer(cb, ok) ==
    IF ok THEN [state |-> "recording", cmds |-> <<>>] ELSE cb

\* vkEndCommandBuffer
EndCommandBuffer(cb, ok) ==
    IF ok /\ cb.state = "recording" THEN [cb EXCEPT !.state = "executable"] ELSE cb

\* vkQueueSubmit of the command buffer, fenced by queue_submit_fence
\* present: the images queued for presentation right behind the submission
Submission(kind, cb) == [kind |-> kind, cmds |-> cb.cmds, fence |-> TRUE, present |-> {}]

\* a binary semaphore: a signal while it is signaled and a wait while it is
\* unsignaled are invalid, and nothing is known of the semaphore afterwards
SemaphoreSignal(s) == IF s = "unsignaled" THEN "signaled" ELSE "invalid"
SemaphoreWait(s) == IF s = "signaled" THEN "unsignaled" ELSE "invalid"

\* the Bound Images a list of commands refers to
Refs(cmds) == { cmds[i].id : i \in { j \in 1 .. Len(cmds) : cmds[j].kind = "bound" } }

\* ------------------------------------------------------------ fixed widths
ToInt16(v) == ((v + 32768) % 65536) - 32768
ToUint16(v) == v % 65536

\* ------------------------------------------------------------------- state
NoImage ==
    [state |-> "none", refcount |-> 0, pixmap |-> XCB_NONE, owned |-> FALSE,
     image |-> FALSE, memory |-> FALSE, image_view |-> FALSE, descriptor_set |-> FALSE,
     staging_buffer |-> FALSE, staging_memory |-> FALSE,
     shm_id |-> 0, shm_address |-> "NULL", shm_segment |-> XCB_NONE,
     fd |-> "none", pixmap_freed |-> FALSE,
     readbacks |-> 0, shm_calls |-> {},
     width |-> 0, height |-> 0, shm_size |-> 0]

NoLive ==
    [image |-> 0, memory |-> 0, view |-> 0, dset |-> 0, buffer |-> 0,
     segment |-> 0, attach |-> 0, xattach |-> 0, fd |-> 0]

NoCall == [kind |-> "none", h |-> 0, pre |-> NoLive]

NoSession == [dri3_exists |-> FALSE, shm_exists |-> FALSE, devices |-> <<>>]

\* struct vulkan_data after ccalloc: strategy 0 is BIND_PIXMAP_STRATEGY_DRI3,
\* physical_device is VK_NULL_HANDLE (0); devices are numbered from 1
NoDev == [stage |-> "start", result |-> "pending", strategy |-> "DRI3",
          physical_device |-> VK_NULL_HANDLE, queue_family_index |-> 0,
          min_imported_host_pointer_alignment |-> 0]

\* inspect_select_window before it is called: no target, no button counted.
\* `down` is the set of buttons held on the pointer, `first` the window of the
\* first press received and `since` the buttons pressed from that press on and
\* still held.
NoInspect ==
    [pc |-> "start", target |-> XCB_NONE, buttons_pressed |-> 0, result |-> XCB_NONE,
     down |-> {}, first |-> XCB_NONE, since |-> {}]

\* ---------------------------------------------------------------- vk_init
\* What vk_init and the functions it calls allocate: the handles kept in
\* struct vulkan_data, the host arrays, and the shaderc objects.
VdHandles ==
    {"instance", "surface_connection", "surface", "device",
     "acquire_next_image_fence", "queue_submit_fence", "semaphore",
     "swapchain", "swapchain_images", "swapchain_image_layouts",
     "swapchain_image_views", "buffer_ages",
     "descriptor_pool", "descriptor_set_layout", "sampler",
     "compose_pipeline_layout", "compose_pipeline",
     "fill_pipeline_layout", "fill_pipeline", "command_pool", "command_buffer"}

ShaderModules ==
    {"compose_vertex_module", "compose_fragment_module",
     "fill_vertex_module", "fill_fragment_module"}

StageArrays ==
    {"compose_pipeline_shader_stage_create_infos",
     "fill_pipeline_shader_stage_create_infos"}

Resources ==
    VdHandles \cup ShaderModules \cup StageArrays \cup
    {"vd", "properties", "physical_devices", "enabled_extension_names",
     "queue_family_properties", "surface_formats", "image_view",
     "shaderc_compiler", "shaderc_compilation_result"}

\* vk_init after `vd = ccalloc(1, struct vulkan_data)`: every handle is null
NoStartup ==
    [pc |-> "instance", failed |-> "none", result |-> "pending",
     made |-> [r \in Resources |-> IF r = "vd" THEN 1 ELSE 0],
     destroyed |-> [r \in Resources |-> 0],
     handles |-> {},
     views |-> 0,
     count |-> 0,
     stages |-> [a \in StageArrays |-> {}]]

\* an allocation or creation that succeeded
Made(s, r) == [s EXCEPT !.made[r] = @ + 1]

\* the same, stored in a field of struct vulkan_data
Stored(s, r) == [Made(s, r) EXCEPT !.handles = @ \cup {r}]

\* a free, destroy or release call
Released(s, r) == [s EXCEPT !.destroyed[r] = @ + 1]

\* `return false` of step `step`, which sends vk_init to err:
Failed(s, step) == [s EXCEPT !.pc = "err", !.failed = step]

\* `return true` of a step: vk_init goes on to the step `next`
Passed(s, next) == [s EXCEPT !.pc = next]

RECURSIVE StoredAll(_, _)
StoredAll(s, rs) ==
    IF rs = <<>> THEN s ELSE StoredAll(Stored(s, Head(rs)), Tail(rs))

\* the guarded destroys of vk_deinit: a handle still null is skipped
RECURSIVE DestroyNonNull(_, _)
DestroyNonNull(s, rs) ==
    IF rs = <<>> THEN s
    ELSE DestroyNonNull(IF Head(rs) \in s.handles THEN Released(s, Head(rs)) ELSE s,
                        Tail(rs))

RECURSIVE ReleasedTimes(_, _, _)
ReleasedTimes(s, r, n) ==
    IF n = 0 THEN s ELSE ReleasedTimes(Released(s, r), r, n - 1)

RECURSIVE MadeViews(_, _)
MadeViews(s, n) ==
    IF n = 0 THEN s ELSE MadeViews([Made(s, "image_view") EXCEPT !.views = @ + 1], n - 1)

InstanceFailures == {"enumerate_count", "enumerate", "missing_extension", "create_instance"}

\* vk_create_instance
CreateInstance(s, fail) ==
    IF fail = "enumerate_count" THEN Failed(s, "instance")
    ELSE LET s1 == Released(Made(s, "properties"), "properties")
         IN  IF fail \in InstanceFailures THEN Failed(s1, "instance")
             ELSE Passed(Stored(s1, "instance"), "surface")

SurfaceFailures == {"connect", "create_surface"}

\* vk_create_surface: xcb_connect returns a connection object even when it fails
CreateSurface(s, fail) ==
    LET s1 == Stored(s, "surface_connection")
    IN  IF fail \in SurfaceFailures THEN Failed(s1, "surface")
        ELSE Passed(Stored(s1, "surface"), "device")

DeviceFailures ==
    {"enumerate_count", "enumerate", "no_physical_device", "surface_support",
     "no_queue_family", "create_device", "procedure_address"}

\* vk_create_device as vk_init sees it: which of its returns is taken, and whether
\* an import strategy was tried (enabled_extension_names is allocated only then)
CreateDevice(s, fail, tried) ==
    IF fail = "enumerate_count" THEN Failed(s, "device")
    ELSE IF fail = "enumerate"
    THEN Failed(Released(Made(s, "physical_devices"), "physical_devices"), "device")
    ELSE LET s1 == Made(s, "physical_devices")
             s2 == IF tried THEN Made(s1, "enabled_extension_names") ELSE s1
             s3 == Released(s2, "physical_devices")
         IN  IF fail = "no_physical_device" THEN Failed(s3, "device")
             ELSE LET s4 == Released(Made(s3, "queue_family_properties"),
                                     "queue_family_properties")
                  IN  IF fail \in {"surface_support", "no_queue_family"}
                      THEN Failed(s4, "device")
                      ELSE IF fail = "create_device"
                      THEN Failed(Released(s4, "enabled_extension_names"), "device")
                      ELSE LET s5 == Released(Stored(s4, "device"),
                                              "enabled_extension_names")
                           IN  IF fail = "procedure_address" THEN Failed(s5, "device")
                               ELSE Passed(s5, "fences")

FenceFailures == {"acquire_next_image_fence", "queue_submit_fence", "semaphore"}

\* vk_create_fences_and_semaphore
CreateFencesAndSemaphore(s, fail) ==
    IF fail = "acquire_next_image_fence" THEN Failed(s, "fences")
    ELSE LET s1 == Stored(s, "acquire_next_image_fence")
         IN  IF fail = "queue_submit_fence" THEN Failed(s1, "fences")
             ELSE LET s2 == Stored(s1, "queue_submit_fence")
                  IN  IF fail = "semaphore" THEN Failed(s2, "fences")
                      ELSE Passed(Stored(s2, "semaphore"), "swapchain")

\* The surface reports no VK_FORMAT_B8G8R8A8_UNORM format: the loop over the
\* formats never assigns `surface_format`, and the test after it reads a variable
\* that was never initialized. The value read is VK_FORMAT_UNDEFINED ("no_format")
\* or anything else ("no_format_unnoticed").
NoFormatOutcomes == {"no_format", "no_format_unnoticed"}

SwapchainFailures ==
    {"capabilities", "format_count", "create_swapchain", "image_count",
     "image_view", "acquire", "wait", "reset"} \cup NoFormatOutcomes

\* `if (surface_format.format == VK_FORMAT_UNDEFINED) return false;`
FormatRejected(fail) == fail = "no_format"

\* vk_create_swapchain for a swap chain of n images; a failing vkCreateImageView
\* is the one for image k
CreateSwapchain(s, fail, n, k) ==
    IF fail \in {"capabilities", "format_count"} THEN Failed(s, "swapchain")
    ELSE LET s1 == Released(Made(s, "surface_formats"), "surface_formats")
         IN  IF FormatRejected(fail) \/ fail = "create_swapchain"
             THEN Failed(s1, "swapchain")
             ELSE LET s2 == Stored(s1, "swapchain")
                  IN  IF fail = "image_count" THEN Failed(s2, "swapchain")
                      ELSE LET s3 == [StoredAll(s2, <<"swapchain_images",
                                                     "swapchain_image_layouts",
                                                     "swapchain_image_views",
                                                     "buffer_ages">>)
                                        EXCEPT !.count = n]
                           IN  IF fail = "image_view"
                               THEN Failed(MadeViews(s3, k), "swapchain")
                               ELSE IF fail \in {"acquire", "wait", "reset"}
                               THEN Failed(MadeViews(s3, n), "swapchain")
                               ELSE Passed(MadeViews(s3, n), "descriptor_pool")

\* a teardown that destroys one view for every image of the swap chain, without
\* the test against VK_NULL_HANDLE
DestroySwapchainEveryView(s) ==
    LET s1 == DestroyNonNull(s, <<"buffer_ages">>)
        s2 == IF "swapchain_image_views" \in s1.handles
              THEN Released(ReleasedTimes(s1, "image_view", s1.count),
                            "swapchain_image_views")
              ELSE s1
    IN  DestroyNonNull(s2, <<"swapchain_image_layouts", "swapchain_images", "swapchain">>)

\* vk_destroy_swapchain
DestroySwapchain(s) ==
    LET s1 == DestroyNonNull(s, <<"buffer_ages">>)
        s2 == IF "swapchain_image_views" \in s1.handles
              THEN Released(ReleasedTimes(s1, "image_view", s1.views),
                            "swapchain_image_views")
              ELSE s1
    IN  DestroyNonNull(s2, <<"swapchain_image_layouts", "swapchain_images", "swapchain">>)

DescriptorPoolFailures == {"descriptor_pool", "descriptor_set_layout", "sampler"}

\* vk_create_descriptor_pool
CreateDescriptorPool(s, fail) ==
    IF fail = "descriptor_pool" THEN Failed(s, "descriptor_pool")
    ELSE LET s1 == Stored(s, "descriptor_pool")
         IN  IF fail = "descriptor_set_layout" THEN Failed(s1, "descriptor_pool")
             ELSE LET s2 == Stored(s1, "descriptor_set_layout")
                  IN  IF fail = "sampler" THEN Failed(s2, "descriptor_pool")
                      ELSE Passed(Stored(s2, "sampler"), "pipelines")

StageFailures ==
    {"compiler", "vertex_compile", "vertex_module", "fragment_compile", "fragment_module"}

ModuleOf(array, i) ==
    IF array = "compose_pipeline_shader_stage_create_infos"
    THEN (IF i = 0 THEN "compose_vertex_module" ELSE "compose_fragment_module")
    ELSE (IF i = 0 THEN "fill_vertex_module" ELSE "fill_fragment_module")

\* one turn of vk_create_pipeline_shader_stage_create_infos's loop: compile shader i,
\* make its module and store it in the array
StageInfo(s, array, i, compile_ok, module_ok) ==
    LET s1 == Made(s, "shaderc_compilation_result")
    IN  IF ~compile_ok THEN [ok |-> FALSE, s |-> Released(s1, "shaderc_compiler")]
        ELSE IF ~module_ok
        THEN [ok |-> FALSE,
              s |-> Released(Released(s1, "shaderc_compilation_result"),
                             "shaderc_compiler")]
        ELSE [ok |-> TRUE,
              s |-> Released([Made(s1, ModuleOf(array, i))
                                EXCEPT !.stages[array] = @ \cup {ModuleOf(array, i)}],
                             "shaderc_compilation_result")]

\* vk_create_pipeline_shader_stage_create_infos
vk_create_pipeline_shader_stage_create_infos(s, array, fail) ==
    IF fail = "compiler" THEN [ok |-> FALSE, s |-> s]
    ELSE LET r0 == StageInfo(Made(s, "shaderc_compiler"), array, 0,
                             fail # "vertex_compile", fail # "vertex_module")
         IN  IF ~r0.ok THEN r0
             ELSE LET r1 == StageInfo(r0.s, array, 1,
                                      fail # "fragment_compile", fail # "fragment_module")
                  IN  IF ~r1.ok THEN r1
                      ELSE [ok |-> TRUE, s |-> Released(r1.s, "shaderc_compiler")]

RECURSIVE ReleasedEach(_, _)
ReleasedEach(s, rs) ==
    IF rs = {} THEN s
    ELSE LET r == CHOOSE x \in rs : TRUE
         IN  ReleasedEach(Released(s, r), rs \ {r})

\* vk_destroy_pipeline_shader_stage_create_infos: destroy each module the array
\* holds, then free the array. Reading an array that was already freed is
\* undefined: `stale` is the set of its module handles that still read as non-null.
vk_destroy_pipeline_shader_stage_create_infos(s, array, stale) ==
    LET seen == IF s.destroyed[array] > 0 THEN stale ELSE s.stages[array]
    IN  Released(ReleasedEach(s, seen), array)

PipelineSteps ==
    {"compose_infos", "fill_infos", "compose_layout", "compose_pipeline",
     "fill_layout", "fill_pipeline"}

\* the err: label of vk_create_pipelines
PipelinesErr(s, stale) ==
    LET s1 == vk_destroy_pipeline_shader_stage_create_infos(
                  s, "fill_pipeline_shader_stage_create_infos", {})
    IN  Failed(vk_destroy_pipeline_shader_stage_create_infos(
                   s1, "compose_pipeline_shader_stage_create_infos", stale),
               "pipelines")

\* vk_create_pipelines: step `at` fails (`how`, when it is one of the two calls
\* of vk_create_pipeline_shader_stage_create_infos)
CreatePipelines(s, at, how, stale) ==
    LET compose == "compose_pipeline_shader_stage_create_infos"
        fill == "fill_pipeline_shader_stage_create_infos"
        s0 == Made(Made(s, compose), fill)
        c == vk_create_pipeline_shader_stage_create_infos(
                 s0, compose, IF at = "compose_infos" THEN how ELSE "none")
        f == vk_create_pipeline_shader_stage_create_infos(
                 c.s, fill, IF at = "fill_infos" THEN how ELSE "none")
        s1 == Stored(f.s, "compose_pipeline_layout")
        s2 == vk_destroy_pipeline_shader_stage_create_infos(
                  Stored(s1, "compose_pipeline"), compose, {})
        s3 == Stored(s2, "fill_pipeline_layout")
        s4 == vk_destroy_pipeline_shader_stage_create_infos(
                  Stored(s3, "fill_pipeline"), fill, {})
    IN  IF ~c.ok THEN PipelinesErr(c.s, stale)
        ELSE IF ~f.ok THEN PipelinesErr(f.s, stale)
        ELSE IF at = "compose_layout" THEN PipelinesErr(f.s, stale)
        ELSE IF at = "compose_pipeline" THEN PipelinesErr(s1, stale)
        ELSE IF at = "fill_layout" THEN PipelinesErr(s2, stale)
        ELSE IF at = "fill_pipeline" THEN PipelinesErr(s3, stale)
        ELSE Passed(s4, "command_pool")

CommandPoolFailures == {"command_pool", "command_buffer"}

\* vk_create_command_pool
CreateCommandPool(s, fail) ==
    IF fail = "command_pool" THEN Failed(s, "command_pool")
    ELSE LET s1 == Stored(s, "command_pool")
         IN  IF fail = "command_buffer" THEN Failed(s1, "command_pool")
             ELSE Passed(Stored(s1, "command_buffer"), "done")

\* vk_deinit: every handle of struct vulkan_data that is not null, in this order,
\* then the connection (xcb_disconnect ignores a null one) and the struct itself
Deinit(s) ==
    LET s1 == DestroyNonNull(s, <<"command_buffer", "command_pool", "fill_pipeline",
                                  "fill_pipeline_layout", "compose_pipeline",
                                  "compose_pipeline_layout", "sampler",
                                  "descriptor_set_layout", "descriptor_pool">>)
        s2 == DestroySwapchain(s1)
        s3 == DestroyNonNull(s2, <<"semaphore", "queue_submit_fence",
                                   "acquire_next_image_fence", "device", "surface",
                                   "surface_connection", "instance">>)
    IN  Released(s3, "vd")

\* vk_init when no step fails, for a swap chain of n images
StartupDone(n) ==
    [CreateCommandPool(
         CreatePipelines(
             CreateDescriptorPool(
                 CreateSwapchain(
                     CreateFencesAndSemaphore(
                         CreateDevice(CreateSurface(CreateInstance(NoStartup, "none"),
                                                    "none"),
                                      "none", TRUE),
                         "none"),
                     "none", n, 0),
                 "none"),
             "none", "none", {}),
         "none")
     EXCEPT !.result = "handle"]

\* a fence created unsignaled, the creation flags vk_create_fences_and_semaphore
\* does not use for queue_submit_fence
queue_submit_fence_unsignaled == FALSE

\* vk_create_fences_and_semaphore creates queue_submit_fence with
\* VK_FENCE_CREATE_SIGNALED_BIT
queue_submit_fence_created == TRUE

\* The state vk_init leaves behind when it succeeds, with the resources of the
\* images bound since (`bound`, by strategy): vk_create_fences_and_semaphore
\* creates queue_submit_fence signaled, vk_create_swapchain sets every age to -1,
\* every layout to undefined and acquires the first image.
InitFrameWith(bound) ==
    /\ bind_pixmap_strategy \in Strategies
    /\ swapchain_image_count \in 1 .. MaxSwapImages
    /\ buffer_ages = [i \in 0 .. (swapchain_image_count - 1) |-> -1]
    /\ swapchain_image_layouts = [i \in 0 .. (swapchain_image_count - 1) |-> "UNDEFINED"]
    /\ swapchain_image_index \in 0 .. (swapchain_image_count - 1)
    /\ queue_submit_fence = queue_submit_fence_created
    /\ acquire_next_image_fence = "unsignaled"
    /\ semaphore = "signaled"
    /\ acquired = {swapchain_image_index}
    /\ command_buffer = [state |-> "initial", cmds |-> <<>>]
    /\ queue = <<>>
    /\ images = [h \in Handles |-> NoImage]
    /\ segs = [i \in ShmIds |-> 0]
    /\ live = bound[bind_pixmap_strategy]
    /\ pc = "idle"
    /\ call = NoCall
    /\ frame = "idle"
    /\ nframes = 0
    /\ nbinds = 0
    /\ nops = 0
    /\ faults = 0

\* no image has been bound yet
InitFrame == InitFrameWith([s \in Strategies |-> NoLive])

Init ==
    /\ InitFrame
    /\ session = NoSession
    /\ dev = [NoDev EXCEPT !.min_imported_host_pointer_alignment =
                               IF bind_pixmap_strategy = "SHM" THEN 2 ^ MaxAlignmentLog ELSE 0]
    /\ startup = StartupDone(swapchain_image_count)
    /\ inspect = NoInspect

\* ----------------------------------------------------------- the device
\* The device finishes its oldest submission and signals the submission's fence.
\* The command buffer was begun with ONE_TIME_SUBMIT: once executed it is invalid.
\* what executing a submission does to the semaphore: a frame's submission waits
\* on it and signals it, the present call queued behind it waits on it; a bind's
\* submission does not use it
SemaphoreAfter(sub, s) ==
    IF sub.kind # "frame" THEN s
    ELSE IF sub.present = {} THEN SemaphoreSignal(SemaphoreWait(s))
    ELSE SemaphoreWait(SemaphoreSignal(SemaphoreWait(s)))

GpuComplete ==
    /\ queue # <<>>
    /\ queue' = Tail(queue)
    /\ queue_submit_fence' = (queue_submit_fence \/ Head(queue).fence)
    /\ command_buffer' = IF command_buffer.state = "pending" /\ Len(queue) = 1
                          THEN [state |-> "invalid", cmds |-> <<>>]
                          ELSE command_buffer
    /\ semaphore' = SemaphoreAfter(Head(queue), semaphore)
    /\ UNCHANGED <<bind_pixmap_strategy, swapchain_image_count, acquired, buffer_ages,
                   swapchain_image_layouts, swapchain_image_index,
                   acquire_next_image_fence, images, segs, live, pc, call, frame,
                   nframes, nbinds, nops, faults, devVars>>

\* The presentation engine hands over the acquired image, which it can do once
\* no presentation of that image is still queued: the acquire fence and the
\* semaphore signal.
AcquireSignal ==
    /\ acquire_next_image_fence = "pending"
    /\ \A i \in 1 .. Len(queue) : swapchain_image_index \notin queue[i].present
    /\ acquire_next_image_fence' = "signaled"
    /\ semaphore' = SemaphoreSignal(semaphore)
    /\ UNCHANGED <<bind_pixmap_strategy, swapchain_image_count, acquired, buffer_ages,
                   swapchain_image_layouts, swapchain_image_index, queue_submit_fence,
                   command_buffer, queue, images, segs, live, pc, call, frame,
                   nframes, nbinds, nops, faults, devVars>>

\* ------------------------------------------------------------- vk_prepare
PrepareCalls == {"wait_for_fences", "reset_fences", "reset_command_buffer",
                 "begin_command_buffer"}

\* vk_prepare up to vkWaitForFences(queue_submit_fence, UINT64_MAX)
vk_prepare ==
    /\ pc = "idle"
    /\ frame = "idle"
    /\ nframes < MaxFrames
    /\ pc' = "prepare_wait"
    /\ UNCHANGED <<bind_pixmap_strategy, swapchain_image_count, semaphore, acquired, buffer_ages,
                   swapchain_image_layouts, swapchain_image_index, queue_submit_fence,
                   acquire_next_image_fence, command_buffer, queue, images, segs, live,
                   call, frame, nframes, nbinds, nops, faults, devVars>>

\* the barrier vk_prepare records: current image, tracked layout -> color attachment
PrepareBarrier(layouts, idx) ==
    Cmd("PipelineBarrier", "swapchain", idx, layouts[idx], "COLOR_ATTACHMENT_OPTIMAL", <<>>)

\* the command buffer after vk_prepare's reset, begin and barrier
PrepareCommandBuffer(cb, fails, layouts, idx) ==
    Record(BeginCommandBuffer(ResetCommandBuffer(cb, "reset_command_buffer" \notin fails),
                              "begin_command_buffer" \notin fails),
           <<PrepareBarrier(layouts, idx)>>)

\* vk_prepare from the return of vkWaitForFences on: every failure is only logged
vk_prepare_resume(fails) ==
    /\ pc = "prepare_wait"
    /\ faults + Cardinality(fails) <= MaxFaults
    /\ faults' = faults + Cardinality(fails)
    /\ "wait_for_fences" \in fails \/ queue_submit_fence
    /\ queue_submit_fence' = IF "reset_fences" \in fails THEN queue_submit_fence ELSE FALSE
    /\ command_buffer' = PrepareCommandBuffer(command_buffer, fails,
                                              swapchain_image_layouts, swapchain_image_index)
    /\ swapchain_image_layouts' =
           [swapchain_image_layouts EXCEPT ![swapchain_image_index] = "COLOR_ATTACHMENT_OPTIMAL"]
    /\ frame' = "recording"
    /\ nops' = 0
    /\ pc' = "idle"
    /\ UNCHANGED <<bind_pixmap_strategy, swapchain_image_count, semaphore, acquired, buffer_ages,
                   swapchain_image_index, acquire_next_image_fence, queue, images, segs,
                   live, call, nframes, nbinds, devVars>>

\* ------------------------------------------------------------- vk_compose
SurfaceExtent == <<4, 2>>             \* vd->width, vd->height
Coords == {<<0, 0>>}        \* image_coords
Colors == {<<1, 0, 0, 1>>}            \* struct color

\* VkRect2D render_area: offset and extent of the region's bounding box
RenderArea(extents) ==
    <<extents.x1, extents.y1, extents.x2 - extents.x1, extents.y2 - extents.y1>>

\* a loop body that draws without pushing the rectangle
RectDrawNoPush(box) ==
    <<Cmd("Draw", "none", 0, "", "", <<DRAW_VERTICES, 1, 0, 0>>)>>

\* one iteration of the per-rectangle loop: push the box, draw 4 vertices
RectDraw(box) ==
    <<Cmd("PushConstants", "none", 0, "", "", <<8, 16, box.x1, box.y1, box.x2, box.y2>>),
      Cmd("Draw", "none", 0, "", "", <<DRAW_VERTICES, 1, 0, 0>>)>>

RECURSIVE RectDraws(_, _)
RectDraws(rects, i) ==
    IF i > Len(rects) THEN <<>> ELSE RectDraw(rects[i]) \o RectDraws(rects, i + 1)

\* the shared-memory upload vk_compose records: barrier, staging copy, barrier
ShmUpload(h, coords, extents) ==
    <<Cmd("PipelineBarrier", "bound", h, "SHADER_READ_ONLY_OPTIMAL", "TRANSFER_DST_OPTIMAL", <<>>),
      Cmd("CopyBufferToImage", "bound", h, "", "TRANSFER_DST_OPTIMAL",
          <<ToInt16(extents.x1 - coords[1]), ToInt16(extents.y1 - coords[2]),
            ToUint16(extents.x2 - extents.x1), ToUint16(extents.y2 - extents.y1)>>),
      Cmd("PipelineBarrier", "bound", h, "TRANSFER_DST_OPTIMAL", "SHADER_READ_ONLY_OPTIMAL", <<>>)>>

\* everything vk_compose records for a region of at least one rectangle
ComposeCmds(strategy, idx, h, coords, rects) ==
    (IF strategy = "SHM" THEN ShmUpload(h, coords, pixman_region32_extents(rects)) ELSE <<>>)
    \o <<Cmd("BeginRendering", "swapchain", idx, "", "COLOR_ATTACHMENT_OPTIMAL",
             RenderArea(pixman_region32_extents(rects))),
         Cmd("BindPipeline.compose", "none", 0, "", "", <<>>),
         Cmd("SetScissor", "none", 0, "", "", RenderArea(pixman_region32_extents(rects))),
         Cmd("BindDescriptorSets", "bound", h, "", "", <<>>),
         Cmd("PushConstants", "none", 0, "", "", <<0, 8>> \o SurfaceExtent),
         Cmd("PushConstants", "none", 0, "", "", <<24, 8>> \o coords)>>
    \o RectDraws(rects, 1)
    \o <<Cmd("EndRendering", "none", 0, "", "", <<>>)>>

\* a test of n_rects that never returns early
EmptyRegionNever(n_rects) == FALSE

\* `if (n_rects < 1) return;` at the head of vk_compose and of vk_fill
EmptyRegion(n_rects) == n_rects < 1

\* xcb_shm_get_image: the server copies the pixmap's pixels into the image's
\* shared segment; readbacks counts the requests made for the image
ShmGetImage(imgs, h) == [imgs EXCEPT ![h].readbacks = @ + 1]

\* vk_compose, as one of at most `limit` compose and fill calls of its frame
vk_compose_within(limit, h, coords, rects) ==
    /\ pc = "idle"
    /\ frame = "recording"
    /\ nops < limit
    /\ images[h].state = "live"
    /\ nops' = nops + 1
    /\ command_buffer' =
           IF EmptyRegion(Len(rects)) THEN command_buffer
           ELSE Record(command_buffer,
                       ComposeCmds(bind_pixmap_strategy, swapchain_image_index, h, coords, rects))
    /\ images' =
           IF ~EmptyRegion(Len(rects)) /\ bind_pixmap_strategy = "SHM"
           THEN ShmGetImage(images, h)
           ELSE images
    /\ UNCHANGED <<bind_pixmap_strategy, swapchain_image_count, semaphore, acquired, buffer_ages,
                   swapchain_image_layouts, swapchain_image_index, queue_submit_fence,
                   acquire_next_image_fence, queue, segs, live, pc, call, frame,
                   nframes, nbinds, faults, devVars>>

vk_compose(h, coords, rects) == vk_compose_within(MaxOps, h, coords, rects)

\* ---------------------------------------------------------------- vk_fill
FillCmds(idx, color, rects) ==
    <<Cmd("BeginRendering", "swapchain", idx, "", "COLOR_ATTACHMENT_OPTIMAL",
          RenderArea(pixman_region32_extents(rects))),
      Cmd("BindPipeline.fill", "none", 0, "", "", <<>>),
      Cmd("SetScissor", "none", 0, "", "", RenderArea(pixman_region32_extents(rects))),
      Cmd("PushConstants", "none", 0, "", "", <<0, 8>> \o SurfaceExtent),
      Cmd("PushConstants", "none", 0, "", "", <<32, 16>> \o color)>>
    \o RectDraws(rects, 1)
    \o <<Cmd("EndRendering", "none", 0, "", "", <<>>)>>

vk_fill(color, rects) ==
    /\ pc = "idle"
    /\ frame = "recording"
    /\ nops < MaxOps
    /\ nops' = nops + 1
    /\ command_buffer' =
           IF EmptyRegion(Len(rects)) THEN command_buffer
           ELSE Record(command_buffer, FillCmds(swapchain_image_index, color, rects))
    /\ UNCHANGED <<bind_pixmap_strategy, swapchain_image_count, semaphore, acquired, buffer_ages,
                   swapchain_image_layouts, swapchain_image_index, queue_submit_fence,
                   acquire_next_image_fence, queue, images, segs, live, pc, call, frame,
                   nframes, nbinds, faults, devVars>>

\* ------------------------------------------------------------- vk_present
PresentCalls == {"end_command_buffer", "queue_submit", "queue_present", "acquire_next_image"}
PresentWaitCalls == {"wait_for_fences", "reset_fences"}

\* the barrier vk_present records: current image, color attachment -> present
\* a present barrier that takes the image from the undefined layout
PresentBarrierFromUndefined(idx) ==
    Cmd("PipelineBarrier", "swapchain", idx, "UNDEFINED", "PRESENT_SRC_KHR", <<>>)

PresentBarrier(idx) ==
    Cmd("PipelineBarrier", "swapchain", idx, "COLOR_ATTACHMENT_OPTIMAL", "PRESENT_SRC_KHR", <<>>)

\* a vkQueuePresentKHR that leaves the image with the application
PresentReleaseNone(held, idx, ok) == held

\* vkQueuePresentKHR: queued, it hands image idx back to the presentation engine
PresentRelease(held, idx, ok) == IF ok THEN held \ {idx} ELSE held

\* an age update that leaves the other images' ages as they are
buffer_ages_current_only(ages, idx) == [ages EXCEPT ![idx] = 1]

\* an age update that makes every other image one frame older, presented or not
buffer_ages_all_older(ages, idx) ==
    [i \in DOMAIN ages |-> IF i = idx THEN 1 ELSE ages[i] + 1]

\* the buffer-age update of vk_present: the presented image restarts at 1, every
\* other image that has an age grows one frame older
buffer_ages_after_present(ages, idx) ==
    [i \in DOMAIN ages |->
        IF i = idx THEN 1
        ELSE IF ages[i] # -1 THEN ages[i] + 1
        ELSE ages[i]]

\* vk_present up to vkWaitForFences(acquire_next_image_fence, UINT64_MAX)
vk_present(fails, next) ==
    /\ pc = "idle"
    /\ frame = "recording"
    /\ faults + Cardinality(fails) <= MaxFaults
    /\ faults' = faults + Cardinality(fails)
    /\ LET recorded == Record(command_buffer, <<PresentBarrier(swapchain_image_index)>>)
           ended == EndCommandBuffer(recorded, "end_command_buffer" \notin fails)
           submitted == "queue_submit" \notin fails
           presented == IF "queue_present" \notin fails THEN {swapchain_image_index} ELSE {}
       IN  /\ queue' = IF submitted
                       THEN Append(queue, [Submission("frame", ended) EXCEPT !.present = presented])
                       ELSE queue
           /\ command_buffer' = IF submitted THEN [ended EXCEPT !.state = "pending"] ELSE ended
           /\ semaphore' = IF ~submitted /\ presented # {}
                           THEN SemaphoreWait(semaphore) ELSE semaphore
    /\ swapchain_image_layouts' =
           [swapchain_image_layouts EXCEPT ![swapchain_image_index] = "PRESENT_SRC_KHR"]
    /\ buffer_ages' = buffer_ages_after_present(buffer_ages, swapchain_image_index)
    /\ LET held == PresentRelease(acquired, swapchain_image_index, "queue_present" \notin fails)
           acquiring == "acquire_next_image" \notin fails /\ SwapIdx \ held # {}
       IN  IF acquiring
           THEN /\ next \notin held
                /\ swapchain_image_index' = next
                /\ acquire_next_image_fence' = "pending"
                /\ acquired' = held \cup {next}
           ELSE /\ acquired' = held
                /\ UNCHANGED <<swapchain_image_index, acquire_next_image_fence>>
    /\ frame' = "idle"
    /\ nframes' = nframes + 1
    /\ nops' = 0
    /\ pc' = "present_wait"
    /\ UNCHANGED <<bind_pixmap_strategy, swapchain_image_count, queue_submit_fence,
                   images, segs, live, call, nbinds, devVars>>

\* vk_present from the return of vkWaitForFences on
vk_present_resume(fails) ==
    /\ pc = "present_wait"
    /\ faults + Cardinality(fails) <= MaxFaults
    /\ faults' = faults + Cardinality(fails)
    /\ "wait_for_fences" \in fails \/ acquire_next_image_fence = "signaled"
    /\ acquire_next_image_fence' =
           IF "reset_fences" \notin fails /\ acquire_next_image_fence = "signaled"
           THEN "unsignaled" ELSE acquire_next_image_fence
    /\ pc' = "idle"
    /\ UNCHANGED <<bind_pixmap_strategy, swapchain_image_count, semaphore, acquired, buffer_ages,
                   swapchain_image_layouts, swapchain_image_index, queue_submit_fence,
                   command_buffer, queue, images, segs, live, call, frame,
                   nframes, nbinds, nops, devVars>>

\* the age of the first image, whichever image is current
vk_buffer_age_first == buffer_ages[0]

\* vk_buffer_age
vk_buffer_age == buffer_ages[swapchain_image_index]

\* ---------------------------------------------------------- vk_bind_pixmap
DescriptorPoolMaxSets == 32

\* the fallible calls of vk_bind_pixmap_dri3, in order
Dri3Steps == <<"buffers_from_pixmap", "create_image", "get_memory_fd_properties",
               "find_memory_type", "allocate_memory", "bind_image_memory">>

\* the fallible calls of vk_bind_pixmap_shm, in order
ShmSteps == <<"get_geometry", "create_image", "find_memory_type", "allocate_memory",
              "bind_image_memory", "shmget", "shmat", "shm_attach", "create_buffer",
              "get_memory_host_pointer_properties", "find_buffer_memory_type",
              "allocate_buffer_memory", "bind_buffer_memory">>

\* the fallible calls of vk_bind_pixmap after the strategy's import, up to the wait
ViewSteps == <<"create_image_view", "allocate_descriptor_sets">>

\* the fallible calls of vk_bind_pixmap from the wait on the submit fence on
BindSubmitSteps == <<"wait_for_fences", "reset_fences", "reset_command_buffer",
                     "begin_command_buffer", "end_command_buffer", "queue_submit">>

BindSteps(strategy) == (IF strategy = "DRI3" THEN Dri3Steps ELSE ShmSteps) \o ViewSteps

Range(seq) == { seq[i] : i \in 1 .. Len(seq) }
Pos(seq, x) == IF x \in Range(seq) THEN CHOOSE i \in 1 .. Len(seq) : seq[i] = x
               ELSE Len(seq) + 1

\* struct vulkan_image *vi = ccalloc(1, ...): every field zero, then refcount = 1
NewImage(pixmap, owned) ==
    [NoImage EXCEPT !.state = "binding", !.refcount = 1, !.pixmap = pixmap, !.owned = owned]

Bump(l, kind, d) == [l EXCEPT ![kind] = @ + d]

\* the width and height a pixmap can have, and the alignments a device can report
\* (minImportedHostPointerAlignment is a power of two)
Dims == 1 .. MaxDim
Alignments == { 2 ^ k : k \in 0 .. MaxAlignmentLog }

\* a segment size that is advanced to the boundary after it
ShmSizeNextBoundary(width, height, alignment) ==
    LET size == width * height * 4
    IN  size + alignment - (size % alignment)

\* the size vk_bind_pixmap_shm passes to shmget and to vkCreateBuffer
ShmSize(width, height, alignment) ==
    LET size == width * height * 4
    IN  (size - 1) + alignment - ((size - 1) % alignment)

\* the effect of one call of the bind that succeeds; st = [images, live, segs]
StepOk(strategy, step, st, h, sid) ==
    CASE step = "buffers_from_pixmap" ->
           [st EXCEPT !.images[h].fd = "open", !.images[h].width = st.geometry[1],
                      !.images[h].height = st.geometry[2], !.live = Bump(@, "fd", 1)]
      [] step = "get_geometry" ->
           [st EXCEPT !.images[h].width = st.geometry[1],
                      !.images[h].height = st.geometry[2]]
      [] step = "create_image" ->
           [st EXCEPT !.images[h].image = TRUE, !.live = Bump(@, "image", 1)]
      [] step = "allocate_memory" /\ strategy = "DRI3" ->
           [st EXCEPT !.images[h].memory = TRUE, !.images[h].fd = "imported",
                      !.live = Bump(Bump(@, "memory", 1), "fd", -1)]
      [] step = "allocate_memory" /\ strategy = "SHM" ->
           [st EXCEPT !.images[h].memory = TRUE, !.live = Bump(@, "memory", 1)]
      [] step = "shmget" ->
           [st EXCEPT !.images[h].shm_id = sid, !.segs[sid] = h,
                      !.images[h].shm_size =
                          ShmSize(st.images[h].width, st.images[h].height, st.alignment),
                      !.live = Bump(@, "segment", 1)]
      [] step = "shmat" ->
           [st EXCEPT !.images[h].shm_address = "ADDR", !.live = Bump(@, "attach", 1)]
      [] step = "shm_attach" ->
           [st EXCEPT !.images[h].shm_segment = h, !.live = Bump(@, "xattach", 1)]
      [] step = "create_buffer" ->
           [st EXCEPT !.images[h].staging_buffer = TRUE, !.live = Bump(@, "buffer", 1)]
      [] step = "allocate_buffer_memory" ->
           [st EXCEPT !.images[h].staging_memory = TRUE, !.live = Bump(@, "memory", 1)]
      [] step = "create_image_view" ->
           [st EXCEPT !.images[h].image_view = TRUE, !.live = Bump(@, "view", 1)]
      [] step = "allocate_descriptor_sets" ->
           [st EXCEPT !.images[h].descriptor_set = TRUE, !.live = Bump(@, "dset", 1)]
      [] OTHER -> st

\* the effect of one call of the bind that fails: what it leaves in *vi
StepFail(step, st, h) ==
    CASE step = "shmget" -> [st EXCEPT !.images[h].shm_id = SHM_FAILED]
      [] step = "shmat" -> [st EXCEPT !.images[h].shm_address = "FAILED"]
      [] step = "shm_attach" -> [st EXCEPT !.images[h].shm_segment = XCB_NONE]
      [] OTHER -> st

\* a descriptor pool that never runs out of sets
MustFailNever(step, st) == FALSE

\* vkAllocateDescriptorSets fails on a pool with no set left, whatever else happens
MustFail(step, st) ==
    step = "allocate_descriptor_sets" /\ st.live.dset >= DescriptorPoolMaxSets

\* the calls of the bind in order, stopping at the first that fails
RECURSIVE RunSteps(_, _, _, _, _, _, _)
RunSteps(strategy, steps, i, fail, st, h, sid) ==
    IF i > Len(steps) THEN [st |-> st, ok |-> TRUE]
    ELSE IF steps[i] = fail \/ MustFail(steps[i], st)
         THEN [st |-> StepFail(steps[i], st, h), ok |-> FALSE]
         ELSE RunSteps(strategy, steps, i + 1, fail, StepOk(strategy, steps[i], st, h, sid),
                       h, sid)

\* the pixmap the caller passes: the next window pixmap (pixmaps are numbered
\* like the handles they are bound to), or no pixmap at all
Pixmaps == {XCB_NONE, nbinds + 1}

\* the numbers of buffer descriptors a DRI3 reply can hold
Planes == 1 .. MaxPlanes

\* `assert(r->nfd == 1)`: aborts the process unless it is compiled out (NDEBUG)
ReplyAsserted(nfd, ndebug) == nfd # 1 /\ ~ndebug

\* vk_bind_pixmap up to vkWaitForFences(queue_submit_fence), or up to the
\* vkDeviceWaitIdle of the vk_release_image its err: label calls, or up to the
\* abort of a failed assertion. nfd is the number of buffer descriptors in the
\* server's reply to xcb_dri3_buffers_from_pixmap; ndebug is the build.
vk_bind_pixmap_reply(geometry, nfd, ndebug, pixmap, owned, fail, sid) ==
    /\ pc = "idle"
    /\ nbinds < MaxBinds
    /\ segs[sid] = 0
    /\ pixmap = XCB_NONE => fail = BindSteps(bind_pixmap_strategy)[1]
    /\ fail # "none" => faults < MaxFaults
    /\ faults' = IF fail # "none" THEN faults + 1 ELSE faults
    /\ LET h == nbinds + 1
           st0 == [images |-> [images EXCEPT ![h] = NewImage(pixmap, owned)],
                   live |-> live, segs |-> segs, geometry |-> geometry,
                   alignment |-> dev.min_imported_host_pointer_alignment]
           replied == bind_pixmap_strategy = "DRI3" /\ fail # "buffers_from_pixmap"
           r == RunSteps(bind_pixmap_strategy, BindSteps(bind_pixmap_strategy), 1, fail,
                         st0, h, sid)
       IN  /\ nfd # 1 => replied
           /\ IF replied /\ ReplyAsserted(nfd, ndebug)
              THEN /\ images' = [st0.images EXCEPT ![h].fd = "open"]
                   /\ live' = Bump(live, "fd", nfd)
                   /\ segs' = segs
                   /\ call' = NoCall
                   /\ pc' = "aborted"
              ELSE /\ images' = IF r.ok THEN r.st.images
                                ELSE [r.st.images EXCEPT ![h].refcount = @ - 1]
                   /\ live' = IF replied THEN Bump(r.st.live, "fd", nfd - 1) ELSE r.st.live
                   /\ segs' = r.st.segs
                   /\ call' = [kind |-> IF r.ok THEN "bind" ELSE "bind_err", h |-> h,
                               pre |-> live]
                   /\ pc' = IF r.ok THEN "bind_wait" ELSE "idle_wait"
    /\ nbinds' = nbinds + 1
    /\ UNCHANGED <<bind_pixmap_strategy, swapchain_image_count, semaphore, acquired, buffer_ages,
                   swapchain_image_layouts, swapchain_image_index, queue_submit_fence,
                   acquire_next_image_fence, command_buffer, queue, frame,
                   nframes, nops, devVars>>

\* vk_bind_pixmap when the reply holds the one descriptor the code expects
vk_bind_pixmap(pixmap, owned, fail, sid) ==
    vk_bind_pixmap_reply(<<1, 1>>, 1, TRUE, pixmap, owned, fail, sid)

\* a barrier that takes the new image from the layout it is to end in
BindBarrierFromShaderRead(h) ==
    Cmd("PipelineBarrier", "bound", h, "SHADER_READ_ONLY_OPTIMAL", "SHADER_READ_ONLY_OPTIMAL", <<>>)

\* the barrier vk_bind_pixmap records: new image, undefined -> shader read only
BindBarrier(h) ==
    Cmd("PipelineBarrier", "bound", h, "UNDEFINED", "SHADER_READ_ONLY_OPTIMAL", <<>>)

\* the command buffer after the calls of vk_bind_pixmap that come before `fail`
BindCommandBuffer(cb, fail, h) ==
    LET p == Pos(BindSubmitSteps, fail)
        c3 == ResetCommandBuffer(cb, p > 3)
        c4 == IF p > 3 THEN BeginCommandBuffer(c3, p > 4) ELSE c3
        c5 == IF p > 4 THEN EndCommandBuffer(Record(c4, <<BindBarrier(h)>>), p > 5) ELSE c4
    IN  c5

\* vk_bind_pixmap from the return of vkWaitForFences on
vk_bind_pixmap_resume(fail) ==
    /\ pc = "bind_wait"
    /\ fail # "none" => faults < MaxFaults
    /\ faults' = IF fail # "none" THEN faults + 1 ELSE faults
    /\ fail = "wait_for_fences" \/ queue_submit_fence
    /\ LET p == Pos(BindSubmitSteps, fail)
           cb == BindCommandBuffer(command_buffer, fail, call.h)
       IN  /\ queue_submit_fence' = IF p > 2 THEN FALSE ELSE queue_submit_fence
           /\ command_buffer' = IF p > 6 THEN [cb EXCEPT !.state = "pending"] ELSE cb
           /\ queue' = IF p > 6 THEN Append(queue, Submission("bind", cb)) ELSE queue
           /\ IF p > 6
              THEN /\ images' = [images EXCEPT ![call.h].state = "live"]
                   /\ pc' = "idle"
                   /\ call' = NoCall
              ELSE /\ images' = [images EXCEPT ![call.h].refcount = @ - 1]
                   /\ pc' = "idle_wait"
                   /\ call' = [call EXCEPT !.kind = "bind_err"]
    /\ UNCHANGED <<bind_pixmap_strategy, swapchain_image_count, semaphore, acquired, buffer_ages,
                   swapchain_image_layouts, swapchain_image_index,
                   acquire_next_image_fence, segs, live, frame,
                   nframes, nbinds, nops, devVars>>

\* -------------------------------------------------------- vk_release_image
\* shmctl(id, IPC_RMID): removes whatever segment has that id
ShmRemove(st, id) ==
    IF id \in DOMAIN st.segs /\ st.segs[id] # 0
    THEN [st EXCEPT !.segs[id] = 0, !.live = Bump(@, "segment", -1)]
    ELSE st

\* a shmdt that never detaches
ShmDetachNever(st, address) == st

\* shmdt(address): detaches an attached segment, fails on any other address
ShmDetach(st, address) ==
    IF address = "ADDR" THEN [st EXCEPT !.live = Bump(@, "attach", -1)] ELSE st

\* vk_release_image_shm: each resource against its sentinel; shm_calls keeps
\* which of xcb_shm_detach, shmdt and shmctl(IPC_RMID) it called
vk_release_image_shm(st, h) ==
    LET vi == st.images[h]
        s1 == IF vi.staging_buffer THEN [st EXCEPT !.live = Bump(@, "buffer", -1)] ELSE st
        s2 == IF vi.staging_memory THEN [s1 EXCEPT !.live = Bump(@, "memory", -1)] ELSE s1
        s3 == IF vi.shm_segment # XCB_NONE THEN [s2 EXCEPT !.live = Bump(@, "xattach", -1)] ELSE s2
        s4 == IF vi.shm_address # "FAILED" THEN ShmDetach(s3, vi.shm_address) ELSE s3
        s5 == IF vi.shm_id # SHM_FAILED THEN ShmRemove(s4, vi.shm_id) ELSE s4
    IN  [s5 EXCEPT !.images[h].shm_calls =
            (IF vi.shm_segment # XCB_NONE THEN {"xcb_shm_detach"} ELSE {})
            \cup (IF vi.shm_address # "FAILED" THEN {"shmdt"} ELSE {})
            \cup (IF vi.shm_id # SHM_FAILED THEN {"shmctl"} ELSE {})]

\* a release that frees the pixmap whoever owns it
PixmapFreedAlways(vi) == vi.pixmap # XCB_NONE

\* `if (vi->owned && vi->pixmap != XCB_NONE) xcb_free_pixmap(...)`
PixmapFreed(vi) == vi.owned /\ vi.pixmap # XCB_NONE

\* what is left of *vi after free(vi)
Freed(vi) ==
    [NoImage EXCEPT !.state = "freed", !.pixmap_freed = PixmapFreed(vi),
                    !.shm_calls = vi.shm_calls]

\* vk_release_image after vkDeviceWaitIdle: the frees, each against its sentinel
FreeImage(strategy, st, h) ==
    LET vi == st.images[h]
        s1 == IF vi.descriptor_set THEN [st EXCEPT !.live = Bump(@, "dset", -1)] ELSE st
        s2 == IF vi.image_view THEN [s1 EXCEPT !.live = Bump(@, "view", -1)] ELSE s1
        s3 == IF strategy = "SHM" THEN vk_release_image_shm(s2, h) ELSE s2
        s4 == IF vi.image THEN [s3 EXCEPT !.live = Bump(@, "image", -1)] ELSE s3
        s5 == IF vi.memory THEN [s4 EXCEPT !.live = Bump(@, "memory", -1)] ELSE s4
    IN  [s5 EXCEPT !.images[h] = Freed(s5.images[h])]

\* vk_release_image up to vkDeviceWaitIdle
vk_release_image(h) ==
    /\ pc = "idle"
    /\ images[h].state = "live"
    /\ images' = [images EXCEPT ![h].refcount = @ - 1]
    /\ IF images[h].refcount - 1 > 0
       THEN UNCHANGED <<pc, call>>
       ELSE /\ pc' = "idle_wait"
            /\ call' = [kind |-> "release", h |-> h, pre |-> live]
    /\ UNCHANGED <<bind_pixmap_strategy, swapchain_image_count, semaphore, acquired, buffer_ages,
                   swapchain_image_layouts, swapchain_image_index, queue_submit_fence,
                   acquire_next_image_fence, command_buffer, queue, segs, live, frame,
                   nframes, nbinds, nops, faults, devVars>>

\* vk_release_image from the return of vkDeviceWaitIdle on (a failed wait is
\* only logged); also the tail of vk_bind_pixmap's err: path
vk_release_image_resume(wait_ok) ==
    /\ pc = "idle_wait"
    /\ wait_ok => queue = <<>>
    /\ ~wait_ok => faults < MaxFaults
    /\ faults' = IF wait_ok THEN faults ELSE faults + 1
    /\ LET st == FreeImage(bind_pixmap_strategy,
                           [images |-> images, live |-> live, segs |-> segs],
                           call.h)
       IN  /\ images' = st.images
           /\ live' = st.live
           /\ segs' = st.segs
    /\ pc' = "idle"
    /\ call' = NoCall
    /\ UNCHANGED <<bind_pixmap_strategy, swapchain_image_count, semaphore, acquired, buffer_ages,
                   swapchain_image_layouts, swapchain_image_index, queue_submit_fence,
                   acquire_next_image_fence, command_buffer, queue, frame,
                   nframes, nbinds, nops, devVars>>

\* ------------------------------------------------------------ specification
AtMostOne(S) == {{}} \cup { {x} : x \in S }

Next ==
    \/ vk_prepare
    \/ \E fails \in AtMostOne(PrepareCalls) : vk_prepare_resume(fails)
    \/ \E h \in Handles, c \in Coords, r \in Regions : vk_compose(h, c, r)
    \/ \E c \in Colors, r \in Regions : vk_fill(c, r)
    \/ \E fails \in AtMostOne(PresentCalls), next \in SwapIdx : vk_present(fails, next)
    \/ \E fails \in AtMostOne(PresentWaitCalls) : vk_present_resume(fails)
    \/ \E pixmap \in Pixmaps, owned \in BOOLEAN, sid \in ShmIds,
          fail \in Range(BindSteps(bind_pixmap_strategy)) \cup {"none"} :
          vk_bind_pixmap(pixmap, owned, fail, sid)
    \/ \E fail \in Range(BindSubmitSteps) \cup {"none"} : vk_bind_pixmap_resume(fail)
    \/ \E h \in Handles : vk_release_image(h)
    \/ \E wait_ok \in BOOLEAN : vk_release_image_resume(wait_ok)
    \/ GpuComplete
    \/ AcquireSignal

Spec == Init /\ [][Next]_vars


\* The orchestrator's protocol with no call failing: frames are prepare, any
\* compose / fill, present; images are bound and released only between frames.
NextProtocol ==
    \/ vk_prepare
    \/ vk_prepare_resume({})
    \/ \E h \in Handles, c \in Coords, r \in Regions : vk_compose(h, c, r)
    \/ \E c \in Colors, r \in Regions : vk_fill(c, r)
    \/ \E next \in SwapIdx : vk_present({}, next)
    \/ vk_present_resume({})
    \/ \E pixmap \in Pixmaps, owned \in BOOLEAN, sid \in ShmIds :
           frame = "idle" /\ vk_bind_pixmap(pixmap, owned, "none", sid)
    \/ vk_bind_pixmap_resume("none")
    \/ \E h \in Handles : frame = "idle" /\ vk_release_image(h)
    \/ vk_release_image_resume(TRUE)
    \/ GpuComplete
    \/ AcquireSignal

\* Every submission and every acquire eventually completes, and a caller whose
\* wait is over goes on.
ProtocolFairness ==
    /\ WF_vars(GpuComplete)
    /\ WF_vars(AcquireSignal)
    /\ WF_vars(vk_prepare_resume({}))
    /\ WF_vars(vk_present_resume({}))
    /\ WF_vars(vk_bind_pixmap_resume("none"))
    /\ WF_vars(vk_release_image_resume(TRUE))

SpecProtocol == Init /\ [][NextProtocol]_vars /\ ProtocolFairness

\* =========================================================== frame claims
\* C1: after every present, the buffer age of the image that was current during
\* the call is 1, every other image whose age was not -1 is exactly one older,
\* and every image whose age was -1 is still -1.
C1_BufferAgesAfterPresent ==
    [][nframes' = nframes + 1 =>
         \A i \in SwapIdx :
            /\ i = swapchain_image_index => buffer_ages'[i] = 1
            /\ (i # swapchain_image_index /\ buffer_ages[i] # -1) =>
                   buffer_ages'[i] = buffer_ages[i] + 1
            /\ (i # swapchain_image_index /\ buffer_ages[i] = -1) =>
                   buffer_ages'[i] = -1]_vars

\* a second present has returned: one image has age 2, the presented one age 1
C1_Witness ==
    /\ pc = "idle"
    /\ nframes = 2
    /\ \E i \in SwapIdx, j \in SwapIdx : buffer_ages[i] = 2 /\ buffer_ages[j] = 1

\* a present has returned while another image was never presented
C1_WitnessNeverPresented ==
    /\ pc = "idle"
    /\ nframes >= 1
    /\ \E i \in SwapIdx, j \in SwapIdx : buffer_ages[i] = -1 /\ buffer_ages[j] = 1

\* C2: no command buffer submitted to the queue references a Bound Image whose
\* resources have already been freed.
C2_NoSubmittedReferenceToFreed ==
    \A i \in 1 .. Len(queue) : \A h \in Refs(queue[i].cmds) : images[h].state # "freed"

\* C3: a Bound Image's refcount is 1 after a successful bind and never negative;
\* its resources are freed only by the release of that image that took its
\* refcount to 0, after that release's wait for device idle, and the shared
\* segment of an image is removed by no other call.
C3_FreedOnceByLastRelease ==
    [][/\ \A h \in Handles :
            /\ images'[h].refcount >= 0
            /\ (images[h].state # "live" /\ images'[h].state = "live") =>
                   images'[h].refcount = 1
            /\ (images[h].state # "freed" /\ images'[h].state = "freed") =>
                   (pc = "idle_wait" /\ call.h = h /\ images[h].refcount = 0)
       /\ \A id \in ShmIds :
            (segs[id] # 0 /\ segs'[id] = 0) => (pc = "idle_wait" /\ call.h = segs[id])]_vars

\* C4: at most one queue submission is unfinished at any time, and the command
\* buffer is reset or being re-recorded only when no submission is unfinished.
C4_OneSubmissionInFlight ==
    /\ Len(queue) <= 1
    /\ command_buffer.state \in {"initial", "recording"} => queue = <<>>

\* C5: a bindPixmap called after prepare and before the matching present
\* eventually returns: while it waits for the submit fence, the fence is
\* signaled or a submission that will signal it is in the queue.
C5_MidFrameBindCanReturn ==
    (pc = "bind_wait" /\ frame = "recording") =>
        (queue_submit_fence \/ \E i \in 1 .. Len(queue) : queue[i].fence)

\* C6: under the orchestrator's protocol, with no call failing and every
\* submission and acquire completing, every prepare, present and bindPixmap
\* eventually returns, the first prepare included.
C6_CallsReturn ==
    /\ (pc = "prepare_wait") ~> (pc = "idle")
    /\ (pc = "present_wait") ~> (pc = "idle")
    /\ (pc = "bind_wait") ~> (pc = "idle")

\* a frame has been presented, an image bound, and the next prepare has returned
C6_Witness ==
    /\ pc = "idle"
    /\ frame = "recording"
    /\ nframes >= 1
    /\ \E h \in Handles : images[h].state = "live"

\* the live resources of k fully bound images: image, memory, view and descriptor
\* set each, and in the shared-memory strategy also the staging buffer with its
\* memory, the segment, its local attachment and its attachment in the server
LiveOf(strategy, k) ==
    [image |-> k, memory |-> IF strategy = "SHM" THEN 2 * k ELSE k, view |-> k, dset |-> k,
     buffer |-> IF strategy = "SHM" THEN k ELSE 0,
     segment |-> IF strategy = "SHM" THEN k ELSE 0,
     attach |-> IF strategy = "SHM" THEN k ELSE 0,
     xattach |-> IF strategy = "SHM" THEN k ELSE 0,
     fd |-> 0]

\* C12: a bindPixmap that succeeds followed by releaseImage leaves the live
\* resource counts where they were before the bind. As long as no call has
\* failed, between calls the counts are exactly those of the images now bound,
\* so a bind and its release cancel (with or without draws in between).
C12_BindReleaseRoundTrip ==
    (faults = 0 /\ pc = "idle") =>
        live = LiveOf(bind_pixmap_strategy,
                      Cardinality({h \in Handles : images[h].state = "live"}))

\* shared memory: an image was bound and released with no draw and no failure
C12_Witness ==
    /\ bind_pixmap_strategy = "SHM"
    /\ faults = 0
    /\ pc = "idle"
    /\ nframes = 0
    /\ frame = "idle"
    /\ \E h \in Handles : images[h].state = "freed"
    /\ \A h \in Handles : images[h].state # "live"
    /\ live = NoLive

\* C13: a compose or fill whose region has no rectangle records no command,
\* asks the server for no readback, and leaves the command buffer, the swap
\* chain layouts and the buffer ages as they were.
C13_EmptyRegionNoEffect ==
    [][((\E h \in Handles, c \in Coords : vk_compose(h, c, <<>>))
        \/ (\E color \in Colors : vk_fill(color, <<>>)))
       => UNCHANGED <<command_buffer, swapchain_image_layouts, buffer_ages, images,
                      queue, live, segs>>]_vars

\* shared memory, an image is bound, the frame's one operation had an empty
\* region: the command buffer holds prepare's barrier only, nothing was read back
C13_Witness ==
    /\ bind_pixmap_strategy = "SHM"
    /\ frame = "recording"
    /\ command_buffer.state = "recording"
    /\ nops = 1
    /\ Len(command_buffer.cmds) = 1
    /\ \E h \in Handles : images[h].state = "live" /\ images[h].readbacks = 0

\* the draws among the commands one compose or fill recorded
DrawsIn(cmds) == { j \in 1 .. Len(cmds) : cmds[j].op = "Draw" }

\* the commands recorded for the region rects hold one draw of 4 vertices per
\* rectangle, the k-th draw coming right after a push-constant update that
\* carries the k-th rectangle
DrawsMatch(cmds, rects) ==
    /\ Cardinality(DrawsIn(cmds)) = Len(rects)
    /\ \A j \in DrawsIn(cmds) :
         LET k == Cardinality({ i \in DrawsIn(cmds) : i <= j })
         IN  /\ cmds[j].args = <<4, 1, 0, 0>>
             /\ j > 1
             /\ cmds[j - 1].op = "PushConstants"
             /\ cmds[j - 1].args =
                    <<8, 16, rects[k].x1, rects[k].y1, rects[k].x2, rects[k].y2>>

\* C14: a compose or fill over a region of K >= 1 rectangles records exactly
\* K draw calls of 4 vertices each, every draw preceded by the push-constant
\* update of its own rectangle.
C14_OneDrawPerRectangle ==
    [][\A rects \in Regions :
         (/\ Len(rects) >= 1
          /\ command_buffer.state = "recording"
          /\ \/ \E h \in Handles, c \in Coords : vk_compose(h, c, rects)
             \/ \E color \in Colors : vk_fill(color, rects))
         => DrawsMatch(SubSeq(command_buffer'.cmds, Len(command_buffer.cmds) + 1,
                              Len(command_buffer'.cmds)),
                       rects)]_vars

\* a submitted frame whose one operation drew a region of two rectangles
C14_Witness ==
    \E i \in 1 .. Len(queue) :
        /\ queue[i].kind = "frame"
        /\ Cardinality(DrawsIn(queue[i].cmds)) = 2

\* The orchestrator's protocol when the only calls that fail are vkQueueSubmit
\* and vkQueuePresentKHR inside vk_present, at most MaxFaults times.
NextPresentFaults ==
    \/ NextProtocol
    \/ \E fails \in {{"queue_submit"}, {"queue_present"}}, next \in SwapIdx :
           vk_present(fails, next)

SpecPresentFaults == Init /\ [][NextPresentFaults]_vars

\* C15: a failed queue submission or present call inside present is only
\* logged, and the next prepare still returns: whenever prepare waits for the
\* submit fence, the fence is signaled or a submission that will signal it is
\* in the queue.
C15_PrepareReturnsAfterFailedPresent ==
    pc = "prepare_wait" =>
        (queue_submit_fence \/ \E i \in 1 .. Len(queue) : queue[i].fence)

\* the step in which vk_bind_pixmap returns the handle h
BindReturns(h) == images[h].state = "binding" /\ images'[h].state = "live"

\* the positions in q of the one-shot submission made for the image h
BindSubmissionsOf(q, h) ==
    { i \in 1 .. Len(q) : q[i].kind = "bind" /\ h \in Refs(q[i].cmds) }

C17_BufferAgeOfCurrentImage ==
    /\ vk_buffer_age = -1
    /\ [][/\ vk_buffer_age' = buffer_ages'[swapchain_image_index']
          /\ nframes' = 0 => vk_buffer_age' = -1
          /\ nframes' = nframes + 1 => buffer_ages'[swapchain_image_index] = 1
          /\ \A i \in SwapIdx :
               /\ (buffer_ages[i] = -1 /\ buffer_ages'[i] # -1) =>
                      (i = swapchain_image_index /\ nframes' = nframes + 1)
               /\ buffer_ages[i] # -1 => buffer_ages'[i] >= 1]_vars

\* a frame has been presented and the image now current never was: the age is -1
C17_Witness ==
    /\ pc = "idle"
    /\ nframes >= 1
    /\ swapchain_image_index = 1
    /\ buffer_ages[0] = 1
    /\ vk_buffer_age = -1

\* C18: when releaseImage destroys a Bound Image, the pixmap is freed exactly
\* when the image was bound with owned = true; the backend never frees a
\* pixmap bound with owned = false, on any path.
C18_PixmapFreedIffOwned ==
    [][\A h \in Handles :
         /\ (images[h].state = "live" /\ images'[h].state = "freed") =>
                (images'[h].pixmap_freed <=> images[h].owned)
         /\ (~images[h].pixmap_freed /\ images'[h].pixmap_freed) => images[h].owned
         /\ images'[h].pixmap_freed => images'[h].state = "freed"]_vars

\* no call failed; an owned and a borrowed pixmap were bound and released: the
\* owned one was freed, the borrowed one was not
C18_Witness ==
    /\ faults = 0
    /\ pc = "idle"
    /\ \E h1, h2 \in Handles :
         /\ images[h1].state = "freed" /\ images[h1].pixmap_freed
         /\ images[h2].state = "freed" /\ ~images[h2].pixmap_freed

\* the bind of this image never reached shmget: the three segment fields are
\* as ccalloc left them
SegmentNeverCreated(vi) ==
    vi.shm_id = 0 /\ vi.shm_address = "NULL" /\ vi.shm_segment = XCB_NONE

\* C19: when a shared-memory bindPixmap fails before its segment is created,
\* the rollback makes no local detach, no server detach and no segment removal.
C19_NoSegmentCallsBeforeCreation ==
    [][(/\ bind_pixmap_strategy = "SHM"
        /\ pc = "idle_wait"
        /\ call.kind = "bind_err"
        /\ pc' = "idle"
        /\ SegmentNeverCreated(images[call.h]))
       => images'[call.h].shm_calls = {}]_vars

\* seq p is a prefix of seq s
IsPrefix(p, s) == Len(p) <= Len(s) /\ SubSeq(s, 1, Len(p)) = p

\* C21: what prepare, compose and fill recorded in a frame is what that frame's
\* present submits: between prepare and present no step resets or discards the
\* recorded commands, and present submits them followed by its barrier.
C21_FrameCommandsSubmitted ==
    [][/\ (/\ frame = "recording" /\ frame' = "recording"
           /\ command_buffer.state = "recording")
          => (/\ command_buffer'.state = "recording"
              /\ IsPrefix(command_buffer.cmds, command_buffer'.cmds))
       /\ (/\ frame = "recording" /\ frame' = "idle"
           /\ command_buffer.state = "recording"
           /\ Len(queue') = Len(queue) + 1)
          => queue'[Len(queue')].cmds =
                 command_buffer.cmds \o <<PresentBarrier(swapchain_image_index)>>]_vars

\* C22: when vkAcquireNextImageKHR fails inside present, present returns
\* without blocking on the acquire fence: whenever present waits on that fence,
\* the fence is signaled or an acquisition that will signal it is outstanding.
C22_PresentReturnsAfterFailedAcquire ==
    pc = "present_wait" => acquire_next_image_fence \in {"pending", "signaled"}

\* C23: an image has age 1 only when the latest present call presented it
\* successfully: a present whose vkQueueSubmit failed, so that nothing was
\* submitted for the image, does not leave the image with age 1.
C23_AgeOneOnlyAfterSuccessfulPresent ==
    [][(frame = "recording" /\ frame' = "idle" /\ queue' = queue)
       => buffer_ages'[swapchain_image_index] # 1]_vars

\* Frames of up to MaxComposes compose calls of one rectangle each, no call
\* failing, images bound between frames.
NextStaging ==
    \/ vk_prepare
    \/ vk_prepare_resume({})
    \/ \E h \in Handles, c \in Coords, r \in Regions :
           Len(r) = 1 /\ vk_compose_within(MaxComposes, h, c, r)
    \/ \E next \in SwapIdx : vk_present({}, next)
    \/ vk_present_resume({})
    \/ \E pixmap \in Pixmaps, owned \in BOOLEAN, sid \in ShmIds :
           frame = "idle" /\ vk_bind_pixmap(pixmap, owned, "none", sid)
    \/ vk_bind_pixmap_resume("none")
    \/ GpuComplete
    \/ AcquireSignal

SpecStaging == Init /\ [][NextStaging]_vars

\* the copies out of image h's staging buffer among cmds
StagingCopies(cmds, h) ==
    { j \in 1 .. Len(cmds) : cmds[j].op = "CopyBufferToImage" /\ cmds[j].id = h }

\* image h has a copy out of its staging buffer that the device has not
\* executed: recorded in the command buffer or in a queued submission
CopyNotExecuted(h) ==
    \/ command_buffer.state = "recording" /\ StagingCopies(command_buffer.cmds, h) # {}
    \/ \E i \in 1 .. Len(queue) : StagingCopies(queue[i].cmds, h) # {}

\* C24: every staging copy reads the pixels its own compose call read back:
\* no readback is made into an image's segment while a copy out of that segment
\* is still to be executed.
C24_ReadbackNeverOverwritesPendingCopy ==
    [][\A h \in Handles :
         images'[h].readbacks > images[h].readbacks => ~CopyNotExecuted(h)]_vars

TrackedLayouts == {"UNDEFINED", "COLOR_ATTACHMENT_OPTIMAL", "PRESENT_SRC_KHR"}

\* the last element of a non-empty sequence
Last(seq) == seq[Len(seq)]

\* C25: every tracked swap-chain image layout is undefined, color-attachment or
\* present; under the orchestrator's protocol the barrier prepare records and
\* the barrier present records both start from the tracked layout of the
\* current image at that moment, and after present the presented image's
\* tracked layout is present.
C25_BarriersStartFromTrackedLayout ==
    /\ [](\A i \in DOMAIN swapchain_image_layouts : swapchain_image_layouts[i] \in TrackedLayouts)
    /\ [][/\ (frame = "idle" /\ frame' = "recording")
             => /\ Last(command_buffer'.cmds).id = swapchain_image_index
                /\ Last(command_buffer'.cmds).old =
                       swapchain_image_layouts[swapchain_image_index]
          /\ (frame = "recording" /\ frame' = "idle")
             => /\ Last(Last(queue').cmds).id = swapchain_image_index
                /\ Last(Last(queue').cmds).old =
                       swapchain_image_layouts[swapchain_image_index]
                /\ swapchain_image_layouts'[swapchain_image_index] = "PRESENT_SRC_KHR"]_vars

\* the second frame on an image that was presented: prepare's barrier starts
\* from the present layout
C25_Witness ==
    /\ frame = "recording"
    /\ nframes = 1
    /\ command_buffer.cmds # <<>>
    /\ command_buffer.cmds[1].old = "PRESENT_SRC_KHR"
    /\ \E i \in DOMAIN swapchain_image_layouts : swapchain_image_layouts[i] = "UNDEFINED"

\* C26: after init and after every present that returns with no call failing,
\* the backend holds exactly one acquired, not yet presented swap-chain image
\* and swapchain_image_index designates it; every image present queues for
\* presentation is one acquired since its previous presentation.
C26_OneAcquiredImage ==
    /\ [](pc = "idle" => acquired = {swapchain_image_index})
    /\ [][(frame = "recording" /\ frame' = "idle")
          => (/\ swapchain_image_index \in acquired
              /\ swapchain_image_index \in Last(queue').present)]_vars

\* two frames presented, on two different images, and the next image acquired
C26_Witness ==
    /\ pc = "idle"
    /\ nframes = 2
    /\ swapchain_image_count = 2
    /\ \A i \in SwapIdx : buffer_ages[i] >= 1
    /\ acquired = {swapchain_image_index}

\* C27: with no call failing, the semaphore is never signaled while it is
\* signaled and never waited on while it is unsignaled, over any number of
\* frames and with bindPixmap submissions between frames.
C27_SemaphoreSignalsAndWaitsAlternate == semaphore # "invalid"

\* The orchestrator's protocol with no call failing and a presentation engine
\* that hands the images out in round-robin order.
NextRoundRobin ==
    \/ vk_prepare
    \/ vk_prepare_resume({})
    \/ \E h \in Handles, c \in Coords, r \in Regions : vk_compose(h, c, r)
    \/ \E c \in Colors, r \in Regions : vk_fill(c, r)
    \/ vk_present({}, (swapchain_image_index + 1) % swapchain_image_count)
    \/ vk_present_resume({})
    \/ \E pixmap \in Pixmaps, owned \in BOOLEAN, sid \in ShmIds :
           frame = "idle" /\ vk_bind_pixmap(pixmap, owned, "none", sid)
    \/ vk_bind_pixmap_resume("none")
    \/ \E h \in Handles : frame = "idle" /\ vk_release_image(h)
    \/ vk_release_image_resume(TRUE)
    \/ GpuComplete
    \/ AcquireSignal

SpecRoundRobin == Init /\ [][NextRoundRobin]_vars

\* C28: with the N swap-chain images acquired in round-robin order and no call
\* failing, bufferAge returns -1 before each of the first N frames and N before
\* every later frame.
C28_RoundRobinBufferAge ==
    (pc = "idle" /\ frame = "idle")
    => vk_buffer_age = (IF nframes < swapchain_image_count
                        THEN -1 ELSE swapchain_image_count)

\* two images, two frames presented: before the third frame the age is 2
C28_Witness ==
    /\ pc = "idle"
    /\ frame = "idle"
    /\ swapchain_image_count = 2
    /\ nframes = 2
    /\ vk_buffer_age = 2

\* Binds and releases under the zero-copy strategy, with replies of one
\* descriptor or more, in a build with assertions and in one without.
InitPlanes == Init /\ bind_pixmap_strategy = "DRI3"

NextPlanes ==
    \/ \E nfd \in Planes, ndebug \in BOOLEAN, pixmap \in Pixmaps, owned \in BOOLEAN,
          sid \in ShmIds, fail \in Range(Dri3Steps \o ViewSteps) \cup {"none"} :
          vk_bind_pixmap_reply(<<1, 1>>, nfd, ndebug, pixmap, owned, fail, sid)
    \/ \E fail \in Range(BindSubmitSteps) \cup {"none"} : vk_bind_pixmap_resume(fail)
    \/ \E h \in Handles : vk_release_image(h)
    \/ \E wait_ok \in BOOLEAN : vk_release_image_resume(wait_ok)
    \/ GpuComplete

SpecPlanes == InitPlanes /\ [][NextPlanes]_vars

\* C29: under the zero-copy strategy, a bindPixmap whose reply does not hold
\* exactly one buffer descriptor fails: it goes to the rollback of the partially
\* built image, imports nothing and returns no handle.
C29_BindFailsUnlessOnePlane ==
    [][\A nfd \in Planes \ {1}, ndebug \in BOOLEAN, pixmap \in Pixmaps, owned \in BOOLEAN,
          sid \in ShmIds :
         vk_bind_pixmap_reply(<<1, 1>>, nfd, ndebug, pixmap, owned, "none", sid)
         => (/\ pc' = "idle_wait"
             /\ call'.kind = "bind_err"
             /\ images'[call'.h].fd # "imported")]_vars

\* Binds and frames under the shared-memory strategy on a device of any
\* alignment, with pixmaps of any width and height; every call succeeds.
InitShm ==
    /\ InitFrame
    /\ bind_pixmap_strategy = "SHM"
    /\ swapchain_image_count = 1
    /\ session = NoSession
    /\ dev \in { [NoDev EXCEPT !.min_imported_host_pointer_alignment = a] : a \in Alignments }
    /\ startup = StartupDone(swapchain_image_count)
    /\ inspect = NoInspect

NextShm ==
    \/ \E w \in Dims, h \in Dims, sid \in ShmIds :
           vk_bind_pixmap_reply(<<w, h>>, 1, TRUE, nbinds + 1, TRUE, "none", sid)
    \/ vk_bind_pixmap_resume("none")
    \/ vk_prepare
    \/ vk_prepare_resume({})
    \/ \E h \in Handles, c \in Coords, r \in Regions : vk_compose(h, c, r)
    \/ \E next \in SwapIdx : vk_present({}, next)
    \/ vk_present_resume({})
    \/ GpuComplete
    \/ AcquireSignal

SpecShm == InitShm /\ [][NextShm]_vars

\* C32: the size of the shared segment of a bound image is the smallest multiple
\* of the device's recorded minimum host-pointer alignment that is at least
\* width * height * 4; a size that is already a multiple is left as it is.
C32_SegmentSizeIsLeastAlignedSize ==
    \A h \in Handles :
        images[h].shm_size # 0 =>
            LET a == dev.min_imported_host_pointer_alignment
                n == images[h].width * images[h].height * 4
                size == images[h].shm_size
            IN  /\ size % a = 0
                /\ size >= n
                /\ size - a < n
                /\ (n % a = 0 => size = n)

\* a segment whose size was rounded up, beside one whose size was left as it was
C32_Witness ==
    \E h, g \in Handles :
        /\ images[h].shm_size > images[h].width * images[h].height * 4
        /\ images[g].shm_size = images[g].width * images[g].height * 4
        /\ images[g].shm_size # 0
        /\ dev.min_imported_host_pointer_alignment > 1

\* C31: under the shared-memory strategy the rectangle vk_compose reads back and
\* copies (the bounding box of the paint region, translated by the image offset)
\* lies within the width and height of the bound image, and its pixels fit the
\* segment allocated when the image was bound.
C31_ReadbackWithinImage ==
    \A i \in 1 .. Len(command_buffer.cmds) :
        LET c == command_buffer.cmds[i]
        IN  c.op = "CopyBufferToImage" =>
                /\ c.args[1] >= 0
                /\ c.args[2] >= 0
                /\ c.args[1] + c.args[3] <= images[c.id].width
                /\ c.args[2] + c.args[4] <= images[c.id].height
                /\ c.args[3] * c.args[4] * 4 <= images[c.id].shm_size

\* The orchestrator's protocol when the only calls that fail are those made
\* inside vk_bind_pixmap, at most MaxFaults times.
NextBindFaults ==
    \/ NextProtocol
    \/ \E pixmap \in Pixmaps, owned \in BOOLEAN, sid \in ShmIds,
          fail \in Range(BindSteps(bind_pixmap_strategy)) :
           frame = "idle" /\ vk_bind_pixmap(pixmap, owned, fail, sid)
    \/ \E fail \in Range(BindSubmitSteps) : vk_bind_pixmap_resume(fail)

SpecBindFaults == Init /\ [][NextBindFaults]_vars

\* C34: when a bindPixmap that failed at any step returns, the submit fence is
\* signaled or a submission that will signal it is in the queue, so that the
\* wait of the next prepare or bindPixmap is never a wait for a fence that
\* nothing will signal.
C34_FenceUsableAfterFailedBind ==
    /\ [][(pc = "idle_wait" /\ call.kind = "bind_err" /\ pc' = "idle")
          => (queue_submit_fence' \/ \E i \in 1 .. Len(queue') : queue'[i].fence)]_vars
    /\ [](pc \in {"prepare_wait", "bind_wait"}
          => (queue_submit_fence \/ \E i \in 1 .. Len(queue) : queue[i].fence))

\* what n binds that succeeded hold on the device, the server and the host:
\* n times what one bind acquires
BoundBefore(strategy, n) ==
    LET one == RunSteps(strategy, BindSteps(strategy), 1, "none",
                        [images |-> [h \in Handles |-> NoImage], live |-> NoLive,
                         segs |-> [i \in ShmIds |-> 0], geometry |-> <<1, 1>>,
                         alignment |-> 1],
                        1, 0).st.live
    IN  [k \in DOMAIN NoLive |-> n * one[k]]

\* Binds and releases, every call succeeding, on a backend that already holds
\* one image fewer than the descriptor pool has sets.
InitPool ==
    /\ InitFrameWith([s \in Strategies |-> BoundBefore(s, DescriptorPoolMaxSets - 1)])
    /\ session = NoSession
    /\ dev = [NoDev EXCEPT !.min_imported_host_pointer_alignment =
                               IF bind_pixmap_strategy = "SHM" THEN 2 ^ MaxAlignmentLog ELSE 0]
    /\ startup = StartupDone(swapchain_image_count)
    /\ inspect = NoInspect

NextPool ==
    \/ \E pixmap \in Pixmaps, owned \in BOOLEAN, sid \in ShmIds :
           vk_bind_pixmap(pixmap, owned, "none", sid)
    \/ vk_bind_pixmap_resume("none")
    \/ \E h \in Handles : vk_release_image(h)
    \/ vk_release_image_resume(TRUE)
    \/ GpuComplete

SpecPool == InitPool /\ [][NextPool]_vars

C35_WitnessAfterRelease ==
    \E h, g \in Handles :
        /\ images[h].state = "freed"
        /\ images[g].state = "live"
        /\ images[g].descriptor_set
        /\ h < g

\* C36: every buffer age is -1 or at least 1, never 0; two images have the same
\* age only when both are -1; and once a frame has been presented exactly one
\* image has age 1.
C36_BufferAgesDistinct ==
    /\ \A i \in SwapIdx : buffer_ages[i] = -1 \/ buffer_ages[i] >= 1
    /\ \A i, j \in SwapIdx :
           (i # j /\ buffer_ages[i] = buffer_ages[j]) => buffer_ages[i] = -1
    /\ nframes >= 1 => Cardinality({ i \in SwapIdx : buffer_ages[i] = 1 }) = 1

\* two frames presented on two images: the ages are 1 and 2, none is -1
C36_Witness ==
    /\ nframes = 2
    /\ swapchain_image_count = 2
    /\ \A i \in SwapIdx : buffer_ages[i] >= 1
    /\ \E i, j \in SwapIdx : buffer_ages[i] = 1 /\ buffer_ages[j] = 2

\* C37: under the zero-copy strategy the buffer descriptor received from the
\* server is, when bindPixmap has returned on any path, either imported into
\* device memory or closed: no descriptor received by a bind is still open.
C37_DescriptorImportedOrClosed ==
    /\ [](pc = "idle" => live.fd = 0)
    /\ [][(pc = "idle_wait" /\ call.kind = "bind_err" /\ pc' = "idle")
          => live'.fd = call.pre.fd]_vars

\* C38: when a bindPixmap of a pixmap fails, the teardown frees the caller's
\* pixmap exactly when the call was made with owned = true; a pixmap passed
\* with owned = false is never freed.
C38_FailedBindFreesOwnedPixmap ==
    /\ [][(/\ pc = "idle_wait"
           /\ call.kind = "bind_err"
           /\ pc' = "idle"
           /\ images[call.h].pixmap # XCB_NONE)
          => (images'[call.h].pixmap_freed <=> images[call.h].owned)]_vars
    /\ [][\A h \in Handles :
            (~images[h].pixmap_freed /\ images'[h].pixmap_freed) => images[h].owned]_vars

\* the only bind made was of an owned pixmap, it failed, and the pixmap is freed
C38_Witness ==
    /\ pc = "idle"
    /\ nbinds = 1
    /\ faults = 1
    /\ images[1].state = "freed"
    /\ images[1].pixmap_freed

\* C10: when a step of bindPixmap fails, the call returns no handle and the
\* live resource counts are back at their values before the call.
C10_FailedBindRollsBack ==
    [][(pc = "idle_wait" /\ call.kind = "bind_err" /\ pc' = "idle") =>
         (live' = call.pre /\ images'[call.h].state = "freed")]_vars

\* ================================================================ device
\* ---------------------------------------------------------- vk_create_device
CommonExtensions == {"VK_KHR_swapchain"}
Dri3Extensions == {"VK_EXT_external_memory_dma_buf", "VK_EXT_image_drm_format_modifier",
                   "VK_KHR_external_memory_fd"}
ShmExtensions == {"VK_EXT_external_memory_host"}

\* one queue family: queueFlags & GRAPHICS, xcb presentation support, and the
\* result of vkGetPhysicalDeviceSurfaceSupportKHR ("error" when the call fails)
QueueFamily(g, x, s) == [graphics |-> g, xcb |-> x, surface |-> s]

QueueChoices ==
    { <<QueueFamily(TRUE, TRUE, "true")>>,
      <<QueueFamily(TRUE, FALSE, "true"), QueueFamily(TRUE, TRUE, "true")>>,
      <<QueueFamily(TRUE, TRUE, "false"), QueueFamily(FALSE, TRUE, "true")>>,
      <<QueueFamily(TRUE, TRUE, "error")>> }

ExtensionChoices ==
    { CommonExtensions \cup Dri3Extensions,
      CommonExtensions \cup ShmExtensions,
      CommonExtensions \cup Dri3Extensions \cup ShmExtensions,
      Dri3Extensions \cup ShmExtensions,
      CommonExtensions \cup {"VK_EXT_external_memory_dma_buf", "VK_KHR_external_memory_fd"} }

\* the physical devices the instance may enumerate: API minor version, whether
\* vkEnumerateDeviceExtensionProperties succeeds, extensions, queue families.
\* An old API or a failing enumeration is tried on a device that lacks nothing else.
DeviceChoices ==
    { d \in [api : {2, 3}, enumerate_ok : BOOLEAN, extensions : ExtensionChoices,
             families : QueueChoices] :
        (d.api < VK_API_VERSION_1_3 \/ ~d.enumerate_ok) =>
            /\ d.extensions = CommonExtensions \cup Dri3Extensions \cup ShmExtensions
            /\ d.families = <<QueueFamily(TRUE, TRUE, "true")>> }

RECURSIVE SeqsUpTo(_, _)
SeqsUpTo(S, n) ==
    IF n = 0 THEN {<<>>}
    ELSE SeqsUpTo(S, n - 1) \cup
         { Append(q, x) : q \in { r \in SeqsUpTo(S, n - 1) : Len(r) = n - 1 }, x \in S }

Sessions == [dri3_exists : BOOLEAN, shm_exists : BOOLEAN,
             devices : SeqsUpTo(DeviceChoices, MaxDevices)]

\* vk_has_extension
vk_has_extension(properties, extension) == extension \in properties

\* a device check that does not look at the API version
DevicePassesAnyVersion(d, names) ==
    /\ d.enumerate_ok
    /\ \A n \in names : vk_has_extension(d.extensions, n)

\* the body of vk_select_physical_device's loop: does device d pass
DevicePasses(d, names) ==
    /\ ~(d.api < VK_API_VERSION_1_3)
    /\ d.enumerate_ok
    /\ \A n \in names : vk_has_extension(d.extensions, n)

\* vk_select_physical_device: the first device that passes, or the handle it had
RECURSIVE vk_select_physical_device(_, _, _, _)
vk_select_physical_device(current, devices, i, names) ==
    IF i > Len(devices) THEN current
    ELSE IF DevicePasses(devices[i], names) THEN i
    ELSE vk_select_physical_device(current, devices, i + 1, names)

\* the zero-copy attempt of vk_create_device
SelectDri3(vd, ses) ==
    IF ses.dri3_exists
    THEN [vd EXCEPT !.strategy = "DRI3",
                    !.physical_device =
                        vk_select_physical_device(vd.physical_device, ses.devices, 1,
                                                  CommonExtensions \cup Dri3Extensions)]
    ELSE vd

\* a shared-memory attempt made whether or not zero-copy found a device
SelectShmAlways(vd, ses) ==
    IF ses.shm_exists
    THEN [vd EXCEPT !.strategy = "SHM",
                    !.physical_device =
                        vk_select_physical_device(vd.physical_device, ses.devices, 1,
                                                  CommonExtensions \cup ShmExtensions)]
    ELSE vd

\* the shared-memory attempt of vk_create_device
SelectShm(vd, ses) ==
    IF vd.physical_device = VK_NULL_HANDLE /\ ses.shm_exists
    THEN [vd EXCEPT !.strategy = "SHM",
                    !.physical_device =
                        vk_select_physical_device(vd.physical_device, ses.devices, 1,
                                                  CommonExtensions \cup ShmExtensions)]
    ELSE vd

\* vk_create_device, device selection: zero-copy first, then shared memory
vk_create_device_select(alignment) ==
    /\ dev.stage = "start"
    /\ LET vd == SelectShm(SelectDri3(dev, session), session)
       IN  dev' = IF vd.physical_device = VK_NULL_HANDLE
                  THEN [vd EXCEPT !.stage = "done", !.result = "no_physical_device"]
                  ELSE [vd EXCEPT !.stage = "selected",
                                  !.min_imported_host_pointer_alignment =
                                      IF vd.strategy = "SHM" THEN alignment ELSE @]
    /\ UNCHANGED <<frameVars, session, startup, inspect>>

\* the queue family loop: the index found, UINT32_MAX, or "error" on a failed query
RECURSIVE FindQueueFamily(_, _)
FindQueueFamily(families, i) ==
    IF i > Len(families) THEN [error |-> FALSE, index |-> UINT32_MAX]
    ELSE IF families[i].surface = "error" THEN [error |-> TRUE, index |-> UINT32_MAX]
    ELSE IF families[i].graphics /\ families[i].xcb /\ families[i].surface = "true"
         THEN [error |-> FALSE, index |-> i - 1]
    ELSE FindQueueFamily(families, i + 1)

\* vk_create_device, queue family of the selected device
vk_create_device_queue_family ==
    /\ dev.stage = "selected"
    /\ LET r == FindQueueFamily(session.devices[dev.physical_device].families, 1)
       IN  dev' = IF r.error
                  THEN [dev EXCEPT !.stage = "done", !.result = "surface_support_error",
                                   !.queue_family_index = r.index]
                  ELSE IF r.index = UINT32_MAX
                  THEN [dev EXCEPT !.stage = "done", !.result = "no_queue_family",
                                   !.queue_family_index = r.index]
                  ELSE [dev EXCEPT !.stage = "family", !.queue_family_index = r.index]
    /\ UNCHANGED <<frameVars, session, startup, inspect>>

\* vk_create_device, vkCreateDevice and the strategy's procedure address
vk_create_device_create(create_ok, proc_ok) ==
    /\ dev.stage = "family"
    /\ dev' = [dev EXCEPT !.stage = "done",
                          !.result = IF ~create_ok THEN "create_device_failed"
                                     ELSE IF ~proc_ok THEN "no_procedure_address"
                                     ELSE "ok"]
    /\ UNCHANGED <<frameVars, session, startup, inspect>>

InitDevice ==
    /\ InitFrame
    /\ bind_pixmap_strategy = "DRI3"
    /\ swapchain_image_count = 1
    /\ session \in Sessions
    /\ dev = NoDev
    /\ startup = CreateSurface(CreateInstance(NoStartup, "none"), "none")
    /\ inspect = NoInspect

NextDevice ==
    \/ \E a \in Alignments : vk_create_device_select(a)
    \/ vk_create_device_queue_family
    \/ \E create_ok \in BOOLEAN, proc_ok \in BOOLEAN : vk_create_device_create(create_ok, proc_ok)

SpecDevice == InitDevice /\ [][NextDevice]_vars

\* ========================================================== device claims
RequiredExtensions(strategy) ==
    CommonExtensions \cup (IF strategy = "DRI3" THEN Dri3Extensions ELSE ShmExtensions)

\* some enumerated device lists every extension of the strategy
SomeDeviceHasExtensions(strategy) ==
    \E i \in 1 .. Len(session.devices) :
        RequiredExtensions(strategy) \subseteq session.devices[i].extensions

\* some enumerated device of API 1.3 or later, whose extensions can be
\* enumerated, lists every extension of the strategy
SomeDeviceUsable(strategy) ==
    \E i \in 1 .. Len(session.devices) :
        /\ session.devices[i].api >= VK_API_VERSION_1_3
        /\ session.devices[i].enumerate_ok
        /\ RequiredExtensions(strategy) \subseteq session.devices[i].extensions

HasSuitableFamily(d) ==
    \E k \in 1 .. Len(d.families) :
        d.families[k].graphics /\ d.families[k].xcb /\ d.families[k].surface = "true"

DeviceCreated == dev.stage = "done" /\ dev.result = "ok"

\* C7 as stated: whenever zero-copy is advertised and device creation succeeds
\* the strategy is zero-copy, and shared memory is selected only when zero-copy
\* is not advertised.
C7_ZeroCopyWheneverAdvertised ==
    DeviceCreated =>
        /\ session.dri3_exists => dev.strategy = "DRI3"
        /\ dev.strategy = "SHM" => ~session.dri3_exists

\* C7: whenever zero-copy is advertised, some device passes the zero-copy device
\* check and device creation succeeds, the strategy is zero-copy; shared memory
\* is selected only when the zero-copy attempt yields no device.
C7_ZeroCopyWheneverAvailable ==
    DeviceCreated =>
        /\ (session.dri3_exists /\ SomeDeviceUsable("DRI3")) => dev.strategy = "DRI3"
        /\ dev.strategy = "SHM" => ~(session.dri3_exists /\ SomeDeviceUsable("DRI3"))

\* zero-copy is advertised, no device offers it, and the fallback succeeded
C7_Witness ==
    /\ DeviceCreated
    /\ session.dri3_exists
    /\ dev.strategy = "SHM"

\* C8 as stated: shared memory is selected exactly when zero-copy is not
\* advertised or no device has its extension set, shared memory is advertised
\* and some device has its extension set; init fails when neither yields a device.
C8_ShmExactlyWhenListed ==
    dev.stage # "start" =>
        /\ (dev.strategy = "SHM" /\ dev.physical_device # VK_NULL_HANDLE) <=>
               /\ ~(session.dri3_exists /\ SomeDeviceHasExtensions("DRI3"))
               /\ session.shm_exists
               /\ SomeDeviceHasExtensions("SHM")
        /\ (/\ ~(session.dri3_exists /\ SomeDeviceHasExtensions("DRI3"))
            /\ ~(session.shm_exists /\ SomeDeviceHasExtensions("SHM"))) =>
               dev.result = "no_physical_device"

\* C8: shared memory is selected exactly when the zero-copy attempt yields no
\* device (not advertised, or no device of API 1.3 with enumerable extensions
\* has the zero-copy set), shared memory is advertised and some such device has
\* the shared-memory set; init fails when neither attempt yields a device.
C8_ShmExactlyWhenFallback ==
    dev.stage # "start" =>
        /\ (dev.strategy = "SHM" /\ dev.physical_device # VK_NULL_HANDLE) <=>
               /\ ~(session.dri3_exists /\ SomeDeviceUsable("DRI3"))
               /\ session.shm_exists
               /\ SomeDeviceUsable("SHM")
        /\ (/\ ~(session.dri3_exists /\ SomeDeviceUsable("DRI3"))
            /\ ~(session.shm_exists /\ SomeDeviceUsable("SHM"))) =>
               (dev.stage = "done" /\ dev.result = "no_physical_device")

\* shared memory was selected although a device lists the zero-copy extensions:
\* that device is too old or its extensions could not be enumerated
C8_Witness ==
    /\ dev.stage = "selected"
    /\ dev.strategy = "SHM"
    /\ session.dri3_exists
    /\ SomeDeviceHasExtensions("DRI3")

\* neither attempt yields a device and init fails
C8_WitnessFails ==
    /\ dev.stage = "done"
    /\ dev.result = "no_physical_device"
    /\ session.shm_exists
    /\ session.devices # <<>>

\* C9: init selects the first enumerated device that has the required
\* extensions and a queue family with graphics and presentation support; when
\* some device has both, init does not fail for lack of a suitable queue family.
C9_FirstDeviceWithFamily ==
    dev.stage = "done" =>
        /\ (\E i \in 1 .. Len(session.devices) :
                /\ session.devices[i].api >= VK_API_VERSION_1_3
                /\ session.devices[i].enumerate_ok
                /\ RequiredExtensions(dev.strategy) \subseteq session.devices[i].extensions
                /\ HasSuitableFamily(session.devices[i]))
           => dev.result # "no_queue_family"
        /\ dev.result = "ok" => HasSuitableFamily(session.devices[dev.physical_device])

\* ================================================================ vk_init
\* ------------------------------------------------- the steps of vk_init
vk_create_instance(fail) ==
    /\ startup.pc = "instance"
    /\ startup' = CreateInstance(startup, fail)
    /\ UNCHANGED <<frameVars, session, dev, inspect>>

vk_create_surface(fail) ==
    /\ startup.pc = "surface"
    /\ startup' = CreateSurface(startup, fail)
    /\ UNCHANGED <<frameVars, session, dev, inspect>>

vk_create_device(fail, tried) ==
    /\ startup.pc = "device"
    /\ dev.stage = "start"
    /\ fail # "no_physical_device" => tried
    /\ startup' = CreateDevice(startup, fail, tried)
    /\ UNCHANGED <<frameVars, session, dev, inspect>>

vk_create_fences_and_semaphore(fail) ==
    /\ startup.pc = "fences"
    /\ startup' = CreateFencesAndSemaphore(startup, fail)
    /\ UNCHANGED <<frameVars, session, dev, inspect>>

vk_create_swapchain(fail, n, k) ==
    /\ startup.pc = "swapchain"
    /\ k < n
    /\ fail # "image_view" => k = 0
    /\ startup' = CreateSwapchain(startup, fail, n, k)
    /\ UNCHANGED <<frameVars, session, dev, inspect>>

vk_create_descriptor_pool(fail) ==
    /\ startup.pc = "descriptor_pool"
    /\ startup' = CreateDescriptorPool(startup, fail)
    /\ UNCHANGED <<frameVars, session, dev, inspect>>

vk_create_pipelines(at, how, stale) ==
    /\ startup.pc = "pipelines"
    /\ at \in {"compose_infos", "fill_infos"} <=> how # "none"
    /\ at \in {"fill_layout", "fill_pipeline"} \/ stale = {}
    /\ startup' = CreatePipelines(startup, at, how, stale)
    /\ UNCHANGED <<frameVars, session, dev, inspect>>

\* vk_create_command_pool; when it succeeds vk_init returns the backend
vk_create_command_pool(fail) ==
    /\ startup.pc = "command_pool"
    /\ LET s == CreateCommandPool(startup, fail)
       IN  startup' = IF s.pc = "done" THEN [s EXCEPT !.result = "handle"] ELSE s
    /\ UNCHANGED <<frameVars, session, dev, inspect>>

\* vk_init's err: label: vk_deinit, then return NULL
vk_init_err ==
    /\ startup.pc = "err"
    /\ startup' = [Deinit(startup) EXCEPT !.pc = "failed", !.result = "NULL"]
    /\ UNCHANGED <<frameVars, session, dev, inspect>>

\* vk_deinit called on a backend that vk_init returned
vk_deinit ==
    /\ startup.pc = "done"
    /\ startup' = [Deinit(startup) EXCEPT !.pc = "closed"]
    /\ UNCHANGED <<frameVars, session, dev, inspect>>

\* vk_init starts on a zeroed struct vulkan_data; no frame has been drawn
InitStartup ==
    /\ InitFrame
    /\ bind_pixmap_strategy = "DRI3"
    /\ swapchain_image_count = 1
    /\ session = NoSession
    /\ dev = NoDev
    /\ startup = NoStartup
    /\ inspect = NoInspect

NextStartup ==
    \/ \E fail \in InstanceFailures \cup {"none"} : vk_create_instance(fail)
    \/ \E fail \in SurfaceFailures \cup {"none"} : vk_create_surface(fail)
    \/ \E fail \in DeviceFailures \cup {"none"}, tried \in BOOLEAN :
           vk_create_device(fail, tried)
    \/ \E fail \in FenceFailures \cup {"none"} : vk_create_fences_and_semaphore(fail)
    \/ \E fail \in SwapchainFailures \cup {"none"}, n \in 1 .. MaxSwapImages,
          k \in 0 .. (MaxSwapImages - 1) : vk_create_swapchain(fail, n, k)
    \/ \E fail \in DescriptorPoolFailures \cup {"none"} : vk_create_descriptor_pool(fail)
    \/ \E at \in PipelineSteps \cup {"none"}, how \in StageFailures \cup {"none"},
          stale \in SUBSET {"compose_vertex_module", "compose_fragment_module"} :
           vk_create_pipelines(at, how, stale)
    \/ \E fail \in CommandPoolFailures \cup {"none"} : vk_create_command_pool(fail)
    \/ vk_init_err
    \/ vk_deinit

SpecStartup == InitStartup /\ [][NextStartup]_vars

\* ========================================================= vk_init claims
\* C11: when a step of vk_init fails, vk_init returns no handle and the
\* teardown has released every resource made so far exactly once and none
\* that was never made, so nothing made on the device remains allocated.
C11_FailedInitReleasesAll ==
    startup.pc = "failed" =>
        /\ startup.result = "NULL"
        /\ \A r \in Resources : startup.destroyed[r] = startup.made[r]

\* C20: when vk_create_pipelines returns, on success or on failure, every
\* shader module made and both shader-stage arrays have been released
\* exactly once.
C20_ShaderStagesReleasedOnce ==
    (startup.pc = "command_pool" \/ (startup.pc = "err" /\ startup.failed = "pipelines")) =>
        \A r \in ShaderModules \cup StageArrays : startup.destroyed[r] = startup.made[r]

\* C30: when the surface reports no B8G8R8A8 format, vk_create_swapchain fails
\* without creating a swap chain, so that vk_init goes to err: and returns no
\* handle.
C30_NoBgraFormatFailsInit ==
    [][\A fail \in NoFormatOutcomes, n \in 1 .. MaxSwapImages, k \in 0 .. (MaxSwapImages - 1) :
         vk_create_swapchain(fail, n, k)
         => (/\ startup'.pc = "err"
             /\ startup'.made["swapchain"] = 0)]_vars

\* C33: when vk_create_swapchain fails, the teardown releases exactly the image
\* views that were created (the first k of the N images when a view creation
\* fails), each per-image array that was allocated and the swap chain once
\* each, and nothing that was not created.
C33_PartialSwapchainReleased ==
    (startup.pc = "failed" /\ startup.failed = "swapchain") =>
        /\ startup.made["image_view"] = startup.views
        /\ startup.destroyed["image_view"] = startup.views
        /\ \A r \in {"swapchain_images", "swapchain_image_layouts",
                     "swapchain_image_views", "buffer_ages", "swapchain"} :
               /\ startup.made[r] <= 1
               /\ startup.destroyed[r] = startup.made[r]

\* view creation failed for the second of two images: one view made and destroyed
C33_Witness ==
    /\ startup.pc = "failed"
    /\ startup.failed = "swapchain"
    /\ startup.count = 2
    /\ startup.views = 1
    /\ startup.destroyed["image_view"] = 1
    /\ startup.destroyed["swapchain_image_views"] = 1

\* =================================================== inspect_select_window
\* XCB_AWAIT(xcb_grab_pointer, ...): the function goes on only when the grab
\* succeeded; otherwise it logs and returns 1
inspect_grab_pointer(status_ok) ==
    /\ inspect.pc = "start"
    /\ inspect' = IF status_ok THEN [inspect EXCEPT !.pc = "loop"]
                  ELSE [inspect EXCEPT !.pc = "failed", !.result = 1]
    /\ UNCHANGED <<frameVars, session, dev, startup>>

\* One turn of the loop of inspect_select_window: the event received is a press
\* of a button that was up (over the child window `child`, XCB_NONE for none),
\* a release of a button that was down, another event, or none because the
\* connection was lost. After the switch the loop condition is tested; when it
\* fails the pointer is ungrabbed and the target returned.
inspect_select_window(type, button, child) ==
    /\ inspect.pc = "loop"
    /\ type = "press" => button \notin inspect.down
    /\ type = "release" => button \in inspect.down
    /\ LET root == MaxWindows + 1
           pressed == IF child # XCB_NONE THEN child ELSE root
           target == IF type = "press" /\ inspect.target = XCB_NONE
                     THEN pressed ELSE inspect.target
           buttons_pressed ==
               IF type = "press" THEN inspect.buttons_pressed + 1
               ELSE IF type = "release" /\ inspect.buttons_pressed > 0
                    THEN inspect.buttons_pressed - 1
               ELSE inspect.buttons_pressed
           again == target = XCB_NONE \/ buttons_pressed > 0
       IN  inspect' =
               IF type = "lost" THEN [inspect EXCEPT !.pc = "failed", !.result = 1]
               ELSE [inspect EXCEPT
                       !.target = target,
                       !.buttons_pressed = buttons_pressed,
                       !.pc = IF again THEN "loop" ELSE "returned",
                       !.result = IF again THEN @ ELSE target,
                       !.down = IF type = "press" THEN @ \cup {button}
                                ELSE IF type = "release" THEN @ \ {button} ELSE @,
                       !.first = IF type = "press" /\ @ = XCB_NONE THEN pressed ELSE @,
                       !.since = IF type = "press" THEN @ \cup {button}
                                 ELSE IF type = "release" THEN @ \ {button} ELSE @]
    /\ UNCHANGED <<frameVars, session, dev, startup>>

\* inspect_select_window is called with any of the pointer's buttons held
InitInspect ==
    /\ InitFrame
    /\ bind_pixmap_strategy = "DRI3"
    /\ swapchain_image_count = 1
    /\ session = NoSession
    /\ dev = NoDev
    /\ startup = NoStartup
    /\ inspect \in { [NoInspect EXCEPT !.down = d] : d \in SUBSET (1 .. MaxButtons) }

NextInspect ==
    \/ \E status_ok \in BOOLEAN : inspect_grab_pointer(status_ok)
    \/ \E type \in {"press", "release", "other", "lost"}, button \in 1 .. MaxButtons,
          child \in 0 .. MaxWindows : inspect_select_window(type, button, child)

SpecInspect == InitInspect /\ [][NextInspect]_vars

\* C39: inspect_select_window returns the window of the first button press it
\* receives (the pressed child, or the root when there is none), and returns
\* only when every button pressed since that first press has been released; a
\* later press never changes the chosen window, a release that arrives when no
\* press is outstanding is ignored, and the count of pressed buttons is never
\* negative.
C39_ReturnsFirstPressedWindow ==
    /\ [](inspect.pc = "returned" =>
              /\ inspect.first # XCB_NONE
              /\ inspect.result = inspect.first
              /\ inspect.since = {})
    /\ [](inspect.buttons_pressed >= 0)
    /\ [][inspect.target # XCB_NONE => inspect'.target = inspect.target]_vars
    /\ [][(inspect.pc = "loop" /\ inspect.buttons_pressed = 0
           /\ inspect'.down # inspect.down /\ inspect'.down \subseteq inspect.down)
          => (/\ inspect'.buttons_pressed = 0
              /\ inspect'.target = inspect.target)]_vars

====
